---- MODULE Spec2Model ----
(***************************************************************************)
(* EcoFinds marketplace backend: the purchase workflow, the cart, the      *)
(* favorite toggle, the admin product moderation route and the product     *)
(* update route, as Express handlers over the relational store.            *)
(*                                                                         *)
(* Each handler is one action.  The handlers of the purchase router that   *)
(* read a row and write it later (status update, cancel) also exist as     *)
(* one action per awaited statement, for the interleavings of SpecConc.    *)
(***************************************************************************)
EXTENDS Integers, Sequences, FiniteSets, Bags, TLC

(* ---------------------------------------------------------------- bounds *)
MaxUsers == 3
MaxProducts == 1
MaxPurchases == 1
MaxQuantity == 2
MaxNotifications == 3
MaxCartTotal == 2
MaxInFlight == 2
MaxCreated == 1
MaxCategories == 2
MaxImages == 3
MaxRooms == 1
MaxMessages == 1
MaxReports == 2

(* ------------------------------------------------------ program constants *)
\* the seeded admin account is the first row of users
AdminId == 1
\* Joi: quantity min(1) max(10)
MinQuantity == 1
MaxAllowedQuantity == 10
\* const { product_id, quantity = 1 } = req.body
DefaultQuantity == 1

UserIds == 1..MaxUsers
ProductIds == 1..MaxProducts
CategoryIds == 1..MaxCategories
\* ids a request may name: every product and one id that has no row
ProductIdInputs == 1..(MaxProducts + 1)
PurchaseIdInputs == 1..(MaxPurchases + 1)
Prices == {100, 150}
PriceInputs == Prices \cup {0}
\* req.body.quantity: absent (<< >>) or a number, in range or not
QuantityInputs == {<< >>, <<0>>, <<MaxQuantity>>, <<MaxAllowedQuantity + 1>>}

ProductStatuses == {"pending", "approved", "rejected", "sold", "inactive"}
PurchaseStatuses == {"pending", "confirmed", "completed", "cancelled"}
\* what a client may send as req.body.status to the purchase status route
StatusInputs == {"pending", "confirmed", "cancelled", "completed"}

VARIABLES
  products,       \* products table: id -> [seller_id, status, price, category_id, rejection_reason]
  purchases,      \* purchases table: row i has id i (AUTO_INCREMENT, never deleted)
  cart,           \* cart table: <<user_id, product_id>> -> quantity
  favorites,      \* favorites table: set of <<user_id, product_id>>
  notifications,  \* notifications table: a bag of rows
  sales_count,    \* users.sales_count
  inflight,       \* requests of the purchase router between two awaits, by slot
  resp,           \* the last response sent
  product_seq,    \* the last AUTO_INCREMENT id handed out for products
  product_images, \* product_images table: row i has id i
  categories,     \* categories table: the ids of its rows
  chat_rooms,     \* chat_rooms table: row i has id i (never deleted)
  messages,       \* messages table: id -> [room_id, sender_id, message, is_read]
  message_seq,    \* the last AUTO_INCREMENT id handed out for messages
  emitted,        \* the new_message events sent to the socket server, in order
  reports,        \* reports table: row i has id i (never deleted)
  users,          \* users table: id -> [is_active, is_verified]
  sends           \* requests of the send route between two awaits, by slot

vars == <<products, purchases, cart, favorites, notifications, sales_count,
          inflight, resp, product_seq, product_images, categories, chat_rooms,
          messages, message_seq, emitted, reports, users, sends>>

db == <<products, purchases, cart, favorites, notifications, sales_count>>

\* the tables of the listings' images, the categories, the chat and the reports
content == <<product_images, categories, chat_rooms, messages, message_seq,
             emitted, reports, users, sends>>

\* what the purchase, cart and moderation routes leave alone
catalog == <<product_seq, content>>

(* ------------------------------------------------------------ responses *)
\* a response: the route, the HTTP status, the message of the body, of
\* data.purchase the price and the status, and of data.room or data.message the id
ResponseOf(op, code, message, price, status, id) ==
  [op |-> op, code |-> code, message |-> message, price |-> price, status |-> status,
   id |-> id, total |-> 0]

Response(op, code, message, price, status) ==
  ResponseOf(op, code, message, price, status, 0)

RespondId(op, code, message, id) == resp' = ResponseOf(op, code, message, 0, "none", id)

\* res.json({ success: true, data: { messages, pagination: { ..., total } } })
RespondPage(op, code, id, total) ==
  resp' = [ResponseOf(op, code, "", 0, "none", id) EXCEPT !.total = total]

Respond(op, code, message) == resp' = Response(op, code, message, 0, "none")

RespondWith(op, code, message, price, status) ==
  resp' = Response(op, code, message, price, status)

(* --------------------------------------------------------- store helpers *)
\* a result row as the driver hands it to the handler: an object keyed by
\* column name, so of two selected columns with one name the later one stays
RowObject(cols) ==
  [k \in {cols[i][1] : i \in DOMAIN cols} |->
     cols[CHOOSE i \in DOMAIN cols :
            /\ cols[i][1] = k
            /\ \A j \in DOMAIN cols : cols[j][1] = k => j <= i][2]]

\* SELECT pur.*, p.title, p.description, p.price, ... FROM purchases pur JOIN products p
PurchaseWithDetails(pur, id, p) ==
  RowObject(<< <<"id", id>>, <<"buyer_id", pur.buyer_id>>,
               <<"seller_id", pur.seller_id>>, <<"product_id", pur.product_id>>,
               <<"price", pur.price>>, <<"quantity", pur.quantity>>,
               <<"status", pur.status>>, <<"price", p.price>> >>)

\* INSERT INTO purchases (...) VALUES (?, ?, ?, ?, ?, ?, 'pending')
InsertPurchase(rows, buyer, product, pid, quantity) ==
  Append(rows, [buyer_id |-> buyer, seller_id |-> product.seller_id,
                product_id |-> pid, price |-> product.price,
                quantity |-> quantity, status |-> "pending"])

\* a DELETE that names the product only
DeleteCartItemOfProduct(rows, u, pid) ==
  [k \in {x \in DOMAIN rows : x[2] # pid} |-> rows[k]]

\* DELETE FROM cart WHERE user_id = ? AND product_id = ?
DeleteCartItem(rows, u, pid) ==
  [k \in (DOMAIN rows) \ {<<u, pid>>} |-> rows[k]]

\* INSERT INTO notifications (user_id, type, title, message, data)
InsertNotification(rows, user, type, title, purchaseId) ==
  rows (+) SetToBag({[user_id |-> user, type |-> type, title |-> title,
                      purchase_id |-> purchaseId]})

\* UPDATE purchases SET status = ? WHERE id = ?
SetPurchaseStatus(rows, id, status) ==
  IF id \in DOMAIN rows THEN [rows EXCEPT ![id].status = status] ELSE rows

\* UPDATE products SET status = ? WHERE id = ?
SetProductStatus(rows, pid, status) ==
  IF pid \in DOMAIN rows THEN [rows EXCEPT ![pid].status = status] ELSE rows

\* UPDATE users SET sales_count = sales_count + 1 WHERE id = ?
IncrementSales(counts, u) ==
  IF u \in DOMAIN counts THEN [counts EXCEPT ![u] = @ + 1] ELSE counts

(* ---------------------------------------------------------------- Init *)
NoResponse == Response("none", 0, "", 0, "none")

Slots == 1..MaxInFlight
IdleSlot == [pc |-> "idle", op |-> "none", user |-> 0, id |-> 0, status |-> "none",
             hasTxn |-> FALSE, file |-> 0, files |-> 0,
             purchase |-> [buyer_id |-> 0, seller_id |-> 0, product_id |-> 0,
                           price |-> 0, quantity |-> 0, status |-> "none"]]

\* two requests of the send route at a time
SendSlots == 1..2
IdleSend == [pc |-> "idle", user |-> 0, room_id |-> 0, text |-> "", hasIo |-> FALSE,
             id |-> 0, rows |-> << >>]

EmptyCart == [k \in {} |-> 0]

NoMessages == [k \in {} |-> 0]

\* INSERT OR IGNORE INTO categories ...: the seeded categories
SeededCategories == CategoryIds

\* the image every listing has from the route that created it
PlaceholderImage(pid) == [product_id |-> pid, is_primary |-> TRUE]

\* the store the server starts on: one listing per seller, each with the one
\* image its creation gave it, the first of them in any state of moderation and
\* the others on sale, the seeded categories, and no cart row, favorite,
\* purchase, notification, chat room, message or report yet
InitRows ==
  /\ products \in [ProductIds -> [seller_id : UserIds,
                                  status : {"pending", "approved", "rejected", "inactive"},
                                  price : {100},
                                  category_id : SeededCategories,
                                  rejection_reason : {""}]]
  /\ \A p \in ProductIds : products[p].seller_id = (p % MaxUsers) + 1
  /\ \A p \in ProductIds \ {1} : products[p].status = "approved"
  /\ purchases = << >>
  /\ cart = EmptyCart
  /\ favorites = {}
  /\ notifications = EmptyBag
  /\ sales_count = [u \in UserIds |-> 0]
  /\ inflight = [s \in Slots |-> IdleSlot]
  /\ resp = NoResponse
  /\ product_seq = MaxProducts
  /\ product_images = [p \in ProductIds |-> PlaceholderImage(p)]
  /\ categories = SeededCategories
  /\ messages = NoMessages
  /\ message_seq = 0
  /\ emitted = << >>
  /\ reports = << >>
  /\ users = [u \in UserIds |-> [is_active |-> TRUE, is_verified |-> FALSE]]
  /\ sends = [s \in SendSlots |-> IdleSend]

\* the tables after init.js and the seed rows, before any room is opened
InitTables ==
  /\ InitRows
  /\ chat_rooms = << >>

\* every listing is in the first category
Init ==
  /\ InitTables
  /\ \A p \in ProductIds : products[p].category_id = 1

\* the notifications table is kept within the bound
\* the rows a step leaves in the tables fit the bounds of the check
WithinBounds(maxPurchases, maxNotifications) ==
  /\ Len(purchases') <= maxPurchases
  /\ BagCardinality(notifications') <= maxNotifications

Bounded == WithinBounds(MaxPurchases, MaxNotifications)

(* ------------------------------------------------- validation and auth *)
\* Joi: product_id integer positive required; quantity integer min(1) max(10)
ValidPurchaseBody(pid, qty) ==
  /\ pid > 0
  /\ \A i \in DOMAIN qty : qty[i] >= MinQuantity /\ qty[i] <= MaxAllowedQuantity

ValidCartBody(pid, qty) ==
  /\ pid > 0
  /\ \A i \in DOMAIN qty : qty[i] >= MinQuantity /\ qty[i] <= MaxAllowedQuantity

\* Joi: status valid('pending','approved','rejected','sold','inactive') required
ValidProductStatusBody(status) == status \in ProductStatuses

\* req.user.is_admin of the resolved user
IsAdmin(u) == u = AdminId

\* const { product_id, quantity = 1 } = req.body
QuantityOf(qty) == IF qty = << >> THEN DefaultQuantity ELSE qty[1]

(* -------------------------------------------------------- POST /create *)
\* a listing check that refuses the withdrawn listings only
NotAvailableWithdrawnOnly(product) == product.status \in {"rejected", "inactive", "sold"}

\* if (product.seller_id === req.user.id)
OwnProduct(product, u) == product.seller_id = u

\* if (product.status !== 'approved')
NotAvailable(product) == product.status # "approved"

CreatePurchase(u, pid, qty) ==
  /\ UNCHANGED catalog
  /\ UNCHANGED <<favorites, sales_count, inflight, products>>
  /\ IF ~ValidPurchaseBody(pid, qty) THEN
       /\ Respond("create", 400, "Validation error")
       /\ UNCHANGED <<purchases, cart, notifications>>
     ELSE IF pid \notin DOMAIN products THEN
       /\ Respond("create", 404, "Product not found")
       /\ UNCHANGED <<purchases, cart, notifications>>
     ELSE IF OwnProduct(products[pid], u) THEN
       /\ Respond("create", 400, "You cannot purchase your own product")
       /\ UNCHANGED <<purchases, cart, notifications>>
     ELSE IF NotAvailable(products[pid]) THEN
       /\ Respond("create", 400, "Product is not available for purchase")
       /\ UNCHANGED <<purchases, cart, notifications>>
     ELSE
       /\ purchases' = InsertPurchase(purchases, u, products[pid], pid,
                                      QuantityOf(qty))
       /\ cart' = DeleteCartItem(cart, u, pid)
       /\ notifications' = InsertNotification(notifications, products[pid].seller_id,
                                              "purchase", "New Purchase",
                                              Len(purchases'))
       /\ LET row == PurchaseWithDetails(purchases'[Len(purchases')],
                                         Len(purchases'), products[pid])
          IN RespondWith("create", 201, "Purchase created successfully", row.price, row.status)

(* ------------------------------------------------------ POST /cart/add *)
\* the cart table is kept within the bound
RECURSIVE SumOver(_, _)
SumOver(rows, keys) ==
  IF keys = {} THEN 0
  ELSE LET k == CHOOSE x \in keys : TRUE
       IN rows[k] + SumOver(rows, keys \ {k})

CartTotal(rows) == SumOver(rows, DOMAIN rows)

\* UPDATE cart SET quantity = quantity + ? / INSERT INTO cart (...)
UpsertCartItem(rows, u, pid, quantity) ==
  IF <<u, pid>> \in DOMAIN rows
    THEN [rows EXCEPT ![<<u, pid>>] = @ + quantity]
    ELSE [k \in (DOMAIN rows) \cup {<<u, pid>>} |->
            IF k = <<u, pid>> THEN quantity ELSE rows[k]]

\* a cart route without the check on the seller
OwnCartProductUnchecked(product, u) == FALSE

\* if (product.seller_id === req.user.id)
OwnCartProduct(product, u) == product.seller_id = u

AddToCart(u, pid, qty) ==
  /\ UNCHANGED catalog
  /\ UNCHANGED <<favorites, sales_count, inflight, products, purchases, notifications>>
  /\ IF ~ValidCartBody(pid, qty) THEN
       /\ Respond("cart_add", 400, "Validation error")
       /\ UNCHANGED cart
     ELSE IF pid \notin DOMAIN products THEN
       /\ Respond("cart_add", 404, "Product not found")
       /\ UNCHANGED cart
     ELSE IF OwnCartProduct(products[pid], u) THEN
       /\ Respond("cart_add", 400, "You cannot add your own product to cart")
       /\ UNCHANGED cart
     ELSE
       /\ cart' = UpsertCartItem(cart, u, pid, QuantityOf(qty))
       /\ Respond("cart_add", 200, IF <<u, pid>> \in DOMAIN cart
                                      THEN "Item quantity updated in cart"
                                      ELSE "Item added to cart")

(* ------------------------------------------- PUT /cart/update/:productId *)
\* if (!quantity || quantity < 1 || quantity > 10)
ValidUpdateQuantity(qty) ==
  /\ qty # << >>
  /\ qty[1] # 0
  /\ ~(qty[1] < MinQuantity)
  /\ ~(qty[1] > MaxAllowedQuantity)

\* UPDATE cart SET quantity = ? WHERE user_id = ? AND product_id = ?
SetCartQuantity(rows, u, pid, quantity) ==
  [k \in DOMAIN rows |-> IF k = <<u, pid>> THEN quantity ELSE rows[k]]

UpdateCartItem(u, pid, qty) ==
  /\ UNCHANGED catalog
  /\ UNCHANGED <<favorites, sales_count, inflight, products, purchases, notifications>>
  /\ IF ~ValidUpdateQuantity(qty) THEN
       /\ Respond("cart_update", 400, "Quantity must be between 1 and 10")
       /\ UNCHANGED cart
     ELSE IF <<u, pid>> \notin DOMAIN cart THEN
       /\ Respond("cart_update", 404, "Item not found in cart")
       /\ UNCHANGED cart
     ELSE
       /\ cart' = SetCartQuantity(cart, u, pid, qty[1])
       /\ Respond("cart_update", 200, "Cart item updated")

(* ---------------------------------------- DELETE /cart/remove/:productId *)
RemoveFromCart(u, pid) ==
  /\ UNCHANGED catalog
  /\ UNCHANGED <<favorites, sales_count, inflight, products, purchases, notifications>>
  /\ IF <<u, pid>> \notin DOMAIN cart THEN
       /\ Respond("cart_remove", 404, "Item not found in cart")
       /\ UNCHANGED cart
     ELSE
       /\ cart' = DeleteCartItem(cart, u, pid)
       /\ Respond("cart_remove", 200, "Item removed from cart")

(* ---------------------------------------------------- DELETE /cart/clear *)
\* a DELETE without its WHERE
DeleteCartOfEveryUser(rows, u) == EmptyCart

\* DELETE FROM cart WHERE user_id = ?
DeleteCartOfUser(rows, u) ==
  [k \in {x \in DOMAIN rows : x[1] # u} |-> rows[k]]

ClearCart(u) ==
  /\ UNCHANGED catalog
  /\ UNCHANGED <<favorites, sales_count, inflight, products, purchases, notifications>>
  /\ cart' = DeleteCartOfUser(cart, u)
  /\ Respond("cart_clear", 200, "Cart cleared successfully")

(* --------------------------------------------- PUT /:purchaseId/status *)
\* const updateData = [status, purchaseId]; splice(1, 0, transaction_id); push(purchaseId)
UpdateData(status, hasTxn, id) ==
  LET initial == <<status, id>>
      spliced == IF hasTxn THEN <<initial[1], "transaction_id", initial[2]>> ELSE initial
  IN Append(spliced, id)

\* 'UPDATE purchases SET status = ?' [', transaction_id = ?']
\* [', completed_at = CURRENT_TIMESTAMP'] ' WHERE id = ?'
UpdateQueryPlaceholders(status, hasTxn) == 1 + (IF hasTxn THEN 1 ELSE 0) + 1

\* db.execute(sql, params): the statement runs with its placeholders bound in
\* order; with more parameters than placeholders the driver either binds the
\* leading ones or rejects the call
ExecuteOutcomes(nPlaceholders, nParams) ==
  IF nParams = nPlaceholders THEN {"bound"} ELSE {"bound", "error"}

\* a check that forgets the cancelled purchases
CannotBeUpdatedCompletedOnly(status) == status = "completed"

\* if (purchase.status === 'completed' || purchase.status === 'cancelled')
CannotBeUpdated(status) == status \in {"completed", "cancelled"}

\* a check that lets either party of the purchase through
NotSellerNorBuyer(purchase, u) == purchase.seller_id # u /\ purchase.buyer_id # u

\* if (purchase.seller_id !== req.user.id)
NotSeller(purchase, u) == purchase.seller_id # u

\* if (!['confirmed', 'cancelled', 'completed'].includes(status))
ValidStatusRequest(status) == status \in {"confirmed", "cancelled", "completed"}

UpdatePurchaseStatus(u, id, status, hasTxn) ==
  /\ UNCHANGED catalog
  /\ UNCHANGED <<favorites, cart, inflight>>
  /\ IF ~ValidStatusRequest(status) THEN
       /\ Respond("status", 400, "Invalid status")
       /\ UNCHANGED <<purchases, notifications, products, sales_count>>
     ELSE IF id \notin DOMAIN purchases THEN
       /\ Respond("status", 404, "Purchase not found")
       /\ UNCHANGED <<purchases, notifications, products, sales_count>>
     ELSE IF NotSeller(purchases[id], u) THEN
       /\ Respond("status", 403, "You can only update your own sales")
       /\ UNCHANGED <<purchases, notifications, products, sales_count>>
     ELSE IF CannotBeUpdated(purchases[id].status) THEN
       /\ Respond("status", 400, "Purchase status cannot be changed")
       /\ UNCHANGED <<purchases, notifications, products, sales_count>>
     ELSE
       LET updateData == UpdateData(status, hasTxn, id)
           n == UpdateQueryPlaceholders(status, hasTxn)
           purchase == purchases[id]
       IN \E outcome \in ExecuteOutcomes(n, Len(updateData)) :
            IF outcome = "error" THEN
              /\ Respond("status", 500, "Internal Server Error")
              /\ UNCHANGED <<purchases, notifications, products, sales_count>>
            ELSE
              /\ purchases' = SetPurchaseStatus(purchases, updateData[n], updateData[1])
              /\ notifications' = InsertNotification(notifications, purchase.buyer_id,
                                                     "purchase", "Purchase Update", id)
              /\ products' = IF status = "completed"
                               THEN SetProductStatus(products, purchase.product_id, "sold")
                               ELSE products
              /\ sales_count' = IF status = "completed"
                                  THEN IncrementSales(sales_count, purchase.seller_id)
                                  ELSE sales_count
              /\ RespondWith("status", 200, "Purchase " \o status \o " successfully", 0, status)

(* --------------------------------------------- PUT /:purchaseId/cancel *)
\* if (purchase.buyer_id !== req.user.id)
NotBuyer(purchase, u) == purchase.buyer_id # u

\* if (purchase.status !== 'pending')
CannotBeCancelled(status) == status # "pending"

CancelPurchase(u, id) ==
  /\ UNCHANGED catalog
  /\ UNCHANGED <<favorites, cart, inflight, products, sales_count>>
  /\ IF id \notin DOMAIN purchases THEN
       /\ Respond("cancel", 404, "Purchase not found")
       /\ UNCHANGED <<purchases, notifications>>
     ELSE IF NotBuyer(purchases[id], u) THEN
       /\ Respond("cancel", 403, "You can only cancel your own purchases")
       /\ UNCHANGED <<purchases, notifications>>
     ELSE IF CannotBeCancelled(purchases[id].status) THEN
       /\ Respond("cancel", 400, "Purchase cannot be cancelled")
       /\ UNCHANGED <<purchases, notifications>>
     ELSE
       /\ purchases' = SetPurchaseStatus(purchases, id, "cancelled")
       /\ notifications' = InsertNotification(notifications, purchases[id].seller_id,
                                              "purchase", "Purchase Cancelled", id)
       /\ RespondWith("cancel", 200, "Purchase cancelled successfully", 0, "cancelled")

(* ----------------------------------------------------- GET /:purchaseId *)
\* WHERE pur.id = ? AND (pur.buyer_id = ? OR pur.seller_id = ?), joined to products
PurchaseVisibleTo(u, id) ==
  /\ id \in DOMAIN purchases
  /\ purchases[id].product_id \in DOMAIN products
  /\ purchases[id].buyer_id = u \/ purchases[id].seller_id = u

GetPurchase(u, id) ==
  /\ UNCHANGED catalog
  /\ UNCHANGED <<db, inflight>>
  /\ IF ~PurchaseVisibleTo(u, id) THEN
       Respond("details", 404, "Purchase not found")
     ELSE
       LET row == PurchaseWithDetails(purchases[id], id,
                                      products[purchases[id].product_id])
       IN RespondWith("details", 200, "", row.price, row.status)

(* --------------------------------------------- POST /products/:id/favorite *)
\* the methods the route calls on a Product that the Product class defines
ProductMethods == {"create", "findById", "findByIdWithDetails", "findBySellerId",
                   "findAll", "update", "updateStatus", "delete", "search",
                   "filterByCategory", "sortBy", "findPending", "incrementViews",
                   "getImages", "addImage", "removeImage", "canEdit", "isAvailable"}

ToggleFavorite(u, pid) ==
  /\ UNCHANGED catalog
  /\ UNCHANGED <<products, purchases, cart, notifications, sales_count, inflight>>
  /\ IF pid \notin DOMAIN products THEN
       /\ Respond("favorite", 404, "Product not found")
       /\ UNCHANGED favorites
     ELSE IF "isFavoritedBy" \notin ProductMethods THEN
       \* TypeError: product.isFavoritedBy is not a function -> next(error)
       /\ Respond("favorite", 500, "product.isFavoritedBy is not a function")
       /\ UNCHANGED favorites
     ELSE
       /\ favorites' = IF <<u, pid>> \in favorites
                         THEN favorites \ {<<u, pid>>}
                         ELSE favorites \cup {<<u, pid>>}
       /\ Respond("favorite", 200, IF <<u, pid>> \in favorites
                                      THEN "Product removed from favorites"
                                      ELSE "Product added to favorites")

(* ------------------------------------------ PUT /admin/products/:id/status *)
\* rejection_reason of the body: absent or a text
ReasonInputs == {<< >>, <<"damaged">>}

\* Product.updateStatus(status, rejection_reason = null):
\* UPDATE products SET status = ?, rejection_reason = ?, ... WHERE id = ?
SetProductModeration(rows, pid, status, reason) ==
  [rows EXCEPT ![pid].status = status,
               ![pid].rejection_reason = IF reason = << >> THEN "" ELSE reason[1]]

AdminUpdateProductStatusWith(u, pid, status, reason) ==
  /\ UNCHANGED catalog
  /\ UNCHANGED <<purchases, cart, favorites, sales_count, inflight>>
  /\ IF ~IsAdmin(u) THEN
       /\ Respond("moderate", 403, "Admin access required")
       /\ UNCHANGED <<products, notifications>>
     ELSE IF ~ValidProductStatusBody(status) THEN
       /\ Respond("moderate", 400, "Validation error")
       /\ UNCHANGED <<products, notifications>>
     ELSE IF "findByIdAdmin" \notin ProductMethods THEN
       \* TypeError: Product.findByIdAdmin is not a function -> next(error)
       /\ Respond("moderate", 500, "Product.findByIdAdmin is not a function")
       /\ UNCHANGED <<products, notifications>>
     ELSE IF pid \notin DOMAIN products THEN
       /\ Respond("moderate", 404, "Product not found")
       /\ UNCHANGED <<products, notifications>>
     ELSE
       /\ products' = SetProductModeration(products, pid, status, reason)
       /\ notifications' = IF status \in {"approved", "rejected"}
                             THEN InsertNotification(notifications,
                                                     products[pid].seller_id, "admin",
                                                     "Product " \o status, 0)
                             ELSE notifications
       /\ Respond("moderate", 200, "Product " \o status \o " successfully")

\* the request without a rejection_reason
AdminUpdateProductStatus(u, pid, status) == AdminUpdateProductStatusWith(u, pid, status, << >>)

(* ------------------------------------------ PUT /admin/users/:id/status *)
UserIdInputs == 1..(MaxUsers + 1)

\* is_active and is_verified of the body: absent, true or false
FlagInputs == {<< >>, <<TRUE>>, <<FALSE>>}

\* a self check that never fires
TargetsSelfNever(id, u) == FALSE

\* if (userId === req.user.id)
TargetsSelf(id, u) == id = u

\* updateData: the flags the body defines
NoValidFields(isActive, isVerified) == isActive = << >> /\ isVerified = << >>

\* user.update(updateData): the columns of updateData are set on the user's row
UpdateUserFlags(rows, id, isActive, isVerified) ==
  [rows EXCEPT ![id] =
     [is_active |-> IF isActive = << >> THEN @.is_active ELSE isActive[1],
      is_verified |-> IF isVerified = << >> THEN @.is_verified ELSE isVerified[1]]]

\* messages.length > 0: deactivated or reactivated, verified
HasAccountMessages(isActive, isVerified) == isActive # << >> \/ isVerified = <<TRUE>>

AdminUpdateUserStatus(u, id, isActive, isVerified) ==
  /\ UNCHANGED <<products, purchases, cart, favorites, sales_count, inflight, product_seq>>
  /\ UNCHANGED <<product_images, categories, chat_rooms, messages, message_seq, emitted,
                 reports, sends>>
  /\ IF ~IsAdmin(u) THEN
       /\ Respond("user_status", 403, "Admin access required")
       /\ UNCHANGED <<users, notifications>>
     ELSE IF TargetsSelf(id, u) THEN
       /\ Respond("user_status", 400, "You cannot modify your own account")
       /\ UNCHANGED <<users, notifications>>
     ELSE IF id \notin DOMAIN users THEN
       /\ Respond("user_status", 404, "User not found")
       /\ UNCHANGED <<users, notifications>>
     ELSE IF NoValidFields(isActive, isVerified) THEN
       /\ Respond("user_status", 400, "No valid fields to update")
       /\ UNCHANGED <<users, notifications>>
     ELSE
       /\ users' = UpdateUserFlags(users, id, isActive, isVerified)
       /\ IF HasAccountMessages(isActive, isVerified)
            THEN notifications' = InsertNotification(notifications, id, "admin",
                                                     "Account Update", 0)
            ELSE UNCHANGED notifications
       /\ Respond("user_status", 200, "User status updated successfully")

(* ------------------------------------------------------ Product.addImage *)
\* an addImage that leaves the earlier primary image as it is
UnsetPrimaryNever(rows, pid, isPrimary) == rows

\* if (isPrimary) UPDATE product_images SET is_primary = FALSE WHERE product_id = ?
UnsetPrimary(rows, pid, isPrimary) ==
  IF isPrimary
    THEN [i \in DOMAIN rows |->
            IF rows[i].product_id = pid THEN [rows[i] EXCEPT !.is_primary = FALSE]
                                        ELSE rows[i]]
    ELSE rows

\* INSERT INTO product_images (product_id, image_url, is_primary) VALUES (?, ?, ?)
AddImage(rows, pid, isPrimary) ==
  Append(UnsetPrimary(rows, pid, isPrimary), [product_id |-> pid, is_primary |-> isPrimary])

\* for (let i = 0; i < req.files.length; i++) addImage(imageUrl, i === 0),
\* from file i on
RECURSIVE AddImagesFrom(_, _, _, _)
AddImagesFrom(rows, pid, i, nFiles) ==
  IF i >= nFiles THEN rows
  ELSE AddImagesFrom(AddImage(rows, pid, i = 0), pid, i + 1, nFiles)

\* the images table is kept within the bound
RoomForImages(n) == Len(product_images) + n <= MaxImages

\* PRAGMA foreign_keys of the connection: SQLite leaves the declared foreign
\* keys unchecked unless the connection turns them on
ForeignKeys == {"off", "on"}

(* --------------------------------------------------------- errorHandler *)
\* an Error object as the handler reads it; statusCode 0 stands for undefined
ErrorOf(code, name, message) ==
  [code |-> code, name |-> name, message |-> message, statusCode |-> 0, key |-> "",
   errors |-> << >>]

\* what the store of init.js raises for a row that names a missing parent
ForeignKeyFailed ==
  ErrorOf("SQLITE_CONSTRAINT", "Error", "SQLITE_CONSTRAINT: FOREIGN KEY constraint failed")

\* catch (error) { throw new Error(`<prefix>${error.message}`) }: a new Error
\* object, without the code of the one it was made from
Rethrown(prefix, err) == ErrorOf("", "Error", prefix \o err.message)

\* Object.values(err.errors).map(val => val.message).join(', ')
RECURSIVE JoinMessages(_)
JoinMessages(msgs) ==
  IF msgs = << >> THEN ""
  ELSE IF Len(msgs) = 1 THEN msgs[1]
  ELSE msgs[1] \o ", " \o JoinMessages(Tail(msgs))

\* the error object the handler starts from
DefaultError(err) ==
  [message |-> IF err.message # "" THEN err.message ELSE "Internal Server Error",
   statusCode |-> IF err.statusCode # 0 THEN err.statusCode ELSE 500]

\* the handler's tests in their order; a later test that matches overrides
ErrorHandler(err) ==
  IF err.code = "LIMIT_UNEXPECTED_FILE" THEN [message |-> "Unexpected file field", statusCode |-> 400]
  ELSE IF err.code = "LIMIT_FILE_COUNT" THEN [message |-> "Too many files", statusCode |-> 400]
  ELSE IF err.code = "LIMIT_FILE_SIZE" THEN [message |-> "File too large", statusCode |-> 400]
  ELSE IF err.name = "TokenExpiredError" THEN [message |-> "Token expired", statusCode |-> 401]
  ELSE IF err.name = "JsonWebTokenError" THEN [message |-> "Invalid token", statusCode |-> 401]
  ELSE IF err.name = "ValidationError"
    THEN [message |-> JoinMessages(err.errors), statusCode |-> 400]
  ELSE IF err.code = "ER_NO_REFERENCED_ROW_2"
    THEN [message |-> "Referenced record not found", statusCode |-> 400]
  ELSE IF err.code = "ER_DUP_ENTRY"
    THEN [message |-> IF err.key = "email" THEN "Email already exists"
                      ELSE IF err.key = "phone" THEN "Phone number already exists"
                      ELSE "Duplicate entry",
          statusCode |-> 400]
  ELSE DefaultError(err)

\* next(error): the response of the error handler
RespondError(op, err) ==
  Respond(op, ErrorHandler(err).statusCode, ErrorHandler(err).message)

(* ------------------------------------------------------- POST /products *)
\* Joi: price positive required, category_id integer positive required
ValidProductCreateBody(price, category) == price > 0 /\ category > 0

\* INSERT INTO products (...) VALUES (...), status 'pending'
InsertProduct(rows, id, u, price, category) ==
  [k \in (DOMAIN rows) \cup {id} |->
     IF k = id THEN [seller_id |-> u, status |-> "pending", price |-> price,
                     category_id |-> category, rejection_reason |-> ""]
               ELSE rows[k]]

CreateProduct(u, price, category, nFiles) ==
  /\ UNCHANGED <<purchases, cart, favorites, notifications, sales_count, inflight>>
  /\ UNCHANGED <<categories, chat_rooms, messages, message_seq, emitted, reports, users, sends>>
  /\ IF ~ValidProductCreateBody(price, category) THEN
       /\ Respond("create_product", 400, "Validation error")
       /\ UNCHANGED <<products, product_seq, product_images>>
     ELSE
       \E fk \in ForeignKeys :
         IF fk = "on" /\ category \notin categories THEN
           \* Product.create catches the store's error and throws a new one
           /\ RespondError("create_product",
                           Rethrown("Error creating product: ", ForeignKeyFailed))
           /\ UNCHANGED <<products, product_seq, product_images>>
         ELSE
           /\ product_seq < MaxProducts + MaxCreated
           /\ RoomForImages(IF nFiles > 0 THEN nFiles ELSE 1)
           /\ product_seq' = product_seq + 1
           /\ products' = InsertProduct(products, product_seq', u, price, category)
           /\ product_images' = IF nFiles > 0
                                   THEN AddImagesFrom(product_images, product_seq', 0, nFiles)
                                   \* the placeholder image
                                   ELSE AddImage(product_images, product_seq', TRUE)
           /\ IF "toJSON" \in ProductMethods
                THEN RespondWith("create_product", 201, "Product created successfully",
                                 price, "pending")
                \* TypeError: product.toJSON is not a function -> next(error)
                ELSE RespondError("create_product",
                                  ErrorOf("", "TypeError", "product.toJSON is not a function"))

(* ---------------------------------------------------- PUT /products/:id *)
\* the keys of productValidation.update; Joi rejects a body with any other key
UpdateKeys == {"title", "description", "price", "category_id", "condition", "brand",
               "location", "pincode"}

\* a request without fields
EmptyBody == [k \in {} |-> 0]

\* validate(productValidation.update): known keys only, price positive
ValidUpdateBody(body) ==
  /\ DOMAIN body \subseteq UpdateKeys
  /\ "price" \in DOMAIN body => body.price > 0
  /\ "category_id" \in DOMAIN body => body.category_id > 0

\* Product.update: UPDATE products SET <key> = ?, ..., updated_at = ... WHERE id = ?
\* for every key of updateData
SetProductFields(rows, pid, body) ==
  IF pid \in DOMAIN rows
    THEN [rows EXCEPT ![pid] = [c \in DOMAIN rows[pid] |->
                                  IF c \in DOMAIN body THEN body[c] ELSE rows[pid][c]]]
    ELSE rows

\* Product.update: UPDATE products SET price = ?, updated_at = ... WHERE id = ?
SetProductPrice(rows, pid, price) == SetProductFields(rows, pid, [price |-> price])

\* an ownership check that lets every caller through
NotOwnerNorAdminNever(product, u) == FALSE

\* if (product.seller_id !== req.user.id && !req.user.is_admin)
NotOwnerNorAdmin(product, u) == product.seller_id # u /\ ~IsAdmin(u)

UpdateProductWith(u, pid, body, nFiles) ==
  /\ UNCHANGED <<purchases, cart, favorites, notifications, sales_count, inflight>>
  /\ UNCHANGED <<product_seq, categories, chat_rooms, messages, message_seq, emitted,
                 reports, users, sends>>
  /\ IF ~ValidUpdateBody(body) THEN
       /\ Respond("update_product", 400, "Validation error")
       /\ UNCHANGED <<products, product_images>>
     ELSE IF pid \notin DOMAIN products THEN
       /\ Respond("update_product", 404, "Product not found")
       /\ UNCHANGED <<products, product_images>>
     ELSE IF NotOwnerNorAdmin(products[pid], u) THEN
       /\ Respond("update_product", 403, "You can only update your own products")
       /\ UNCHANGED <<products, product_images>>
     ELSE IF DOMAIN body = {} THEN
       \* Product.update throws 'No fields to update' -> next(error)
       /\ Respond("update_product", 500, "Error updating product: No fields to update")
       /\ UNCHANGED <<products, product_images>>
     ELSE
       /\ RoomForImages(nFiles)
       /\ products' = SetProductFields(products, pid, body)
       /\ product_images' = AddImagesFrom(product_images, pid, 0, nFiles)
       /\ IF "toJSON" \in ProductMethods
            THEN RespondWith("update_product", 200, "Product updated successfully",
                             products'[pid].price, "none")
            \* TypeError: updatedProduct.toJSON is not a function -> next(error)
            ELSE Respond("update_product", 500, "updatedProduct.toJSON is not a function")

\* the request whose body has a price or nothing
UpdateProduct(u, pid, hasPrice, price, nFiles) ==
  UpdateProductWith(u, pid, IF hasPrice THEN [price |-> price] ELSE EmptyBody, nFiles)

(* ------------------------------------------------- DELETE /products/:id *)
\* the rows that name the product through a FOREIGN KEY ... REFERENCES products(id)
ProductReferenced(pid) ==
  \/ \E i \in DOMAIN product_images : product_images[i].product_id = pid
  \/ \E k \in DOMAIN cart : k[2] = pid
  \/ \E f \in favorites : f[2] = pid
  \/ \E i \in DOMAIN purchases : purchases[i].product_id = pid
  \/ \E i \in DOMAIN chat_rooms : chat_rooms[i].product_id = pid

\* Product.delete: DELETE FROM products WHERE id = ?
DeleteProductRow(rows, pid) == [k \in (DOMAIN rows) \ {pid} |-> rows[k]]

DeleteProduct(u, pid) ==
  /\ UNCHANGED <<purchases, cart, favorites, notifications, sales_count, inflight>>
  /\ UNCHANGED catalog
  /\ IF pid \notin DOMAIN products THEN
       /\ Respond("delete_product", 404, "Product not found")
       /\ UNCHANGED products
     ELSE IF NotOwnerNorAdmin(products[pid], u) THEN
       /\ Respond("delete_product", 403, "You can only delete your own products")
       /\ UNCHANGED products
     ELSE
       \E fk \in ForeignKeys :
         IF fk = "on" /\ ProductReferenced(pid) THEN
           \* FOREIGN KEY constraint failed -> next(error)
           /\ RespondError("delete_product",
                           Rethrown("Error deleting product: ", ForeignKeyFailed))
           /\ UNCHANGED products
         ELSE
           /\ products' = DeleteProductRow(products, pid)
           /\ Respond("delete_product", 200, "Product deleted successfully")

(* ------------------------------------------ DELETE /admin/categories/:id *)
\* a count of the listings on sale only
ProductCountOnSale(rows, cid) ==
  Cardinality({p \in DOMAIN rows : rows[p].category_id = cid /\ rows[p].status = "approved"})

\* SELECT COUNT(*) as count FROM products WHERE category_id = ?
ProductCount(rows, cid) ==
  Cardinality({p \in DOMAIN rows : rows[p].category_id = cid})

DeleteCategory(u, cid) ==
  /\ UNCHANGED <<db, inflight, product_seq>>
  /\ UNCHANGED <<product_images, chat_rooms, messages, message_seq, emitted, reports, users, sends>>
  /\ IF ~IsAdmin(u) THEN
       /\ Respond("delete_category", 403, "Admin access required")
       /\ UNCHANGED categories
     ELSE IF cid \notin categories THEN
       /\ Respond("delete_category", 404, "Category not found")
       /\ UNCHANGED categories
     ELSE IF ProductCount(products, cid) > 0 THEN
       \* Category.delete throws -> next(error)
       /\ Respond("delete_category", 500,
                  "Error deleting category: Cannot delete category with existing products")
       /\ UNCHANGED categories
     ELSE
       /\ categories' = categories \ {cid}
       /\ Respond("delete_category", 200, "Category deleted successfully")

(* ------------------------------------------------------ POST /chat/room *)
RoomIdInputs == 1..(MaxRooms + 1)

\* SELECT * FROM products WHERE id = ? AND seller_id = ? AND status = "approved"
ApprovedProductOf(pid, seller) ==
  /\ pid \in DOMAIN products
  /\ products[pid].seller_id = seller
  /\ products[pid].status = "approved"

\* SELECT * FROM chat_rooms WHERE buyer_id = ? AND seller_id = ? AND product_id = ?
ExistingRoom(rows, buyer, seller, pid) ==
  {i \in DOMAIN rows : /\ rows[i].buyer_id = buyer
                       /\ rows[i].seller_id = seller
                       /\ rows[i].product_id = pid}

\* INSERT INTO chat_rooms (buyer_id, seller_id, product_id) VALUES (?, ?, ?)
InsertRoom(rows, buyer, seller, pid) ==
  Append(rows, [buyer_id |-> buyer, seller_id |-> seller, product_id |-> pid,
                last_message_at |-> 0])

GetOrCreateRoom(u, pid, seller) ==
  /\ UNCHANGED <<db, inflight, product_seq>>
  /\ UNCHANGED <<product_images, categories, messages, message_seq, emitted, reports, users, sends>>
  /\ IF pid = 0 \/ seller = 0 THEN
       /\ Respond("room", 400, "Product ID and seller ID are required")
       /\ UNCHANGED chat_rooms
     ELSE IF seller = u THEN
       /\ Respond("room", 400, "You cannot chat with yourself")
       /\ UNCHANGED chat_rooms
     ELSE IF ~ApprovedProductOf(pid, seller) THEN
       /\ Respond("room", 404, "Product not found or not available")
       /\ UNCHANGED chat_rooms
     ELSE IF ExistingRoom(chat_rooms, u, seller, pid) # {} THEN
       /\ RespondId("room", 200, "", CHOOSE i \in ExistingRoom(chat_rooms, u, seller, pid) :
                                        \A j \in ExistingRoom(chat_rooms, u, seller, pid) : i <= j)
       /\ UNCHANGED chat_rooms
     ELSE
       /\ chat_rooms' = InsertRoom(chat_rooms, u, seller, pid)
       /\ RespondId("room", 200, "", Len(chat_rooms'))

(* ---------------------------------------- POST /chat/room/:roomId/message *)
\* a check that the room exists
HasAccessToAnyRoom(rows, roomId, u) == roomId \in DOMAIN rows

\* SELECT * FROM chat_rooms WHERE id = ? AND (buyer_id = ? OR seller_id = ?)
HasAccess(rows, roomId, u) ==
  /\ roomId \in DOMAIN rows
  /\ rows[roomId].buyer_id = u \/ rows[roomId].seller_id = u

\* message.trim(): the text without its leading and trailing blanks
Trim(text) == IF text = " " THEN "" ELSE text

\* what a client may send as req.body.message
MessageInputs == {"", " ", "hello"}

\* INSERT INTO messages (room_id, sender_id, message, ...) VALUES (...)
InsertMessage(rows, id, roomId, u, text) ==
  [k \in (DOMAIN rows) \cup {id} |->
     IF k = id THEN [room_id |-> roomId, sender_id |-> u, message |-> Trim(text),
                     is_read |-> FALSE]
               ELSE rows[k]]

\* UPDATE chat_rooms SET last_message_at = CURRENT_TIMESTAMP WHERE id = ?,
\* the time of a statement being the number of messages sent so far
TouchRoom(rows, roomId, now) ==
  IF roomId \in DOMAIN rows THEN [rows EXCEPT ![roomId].last_message_at = now] ELSE rows

\* an emit that reaches the channel twice
EmitTwice(events, roomId, id, message) ==
  events \o <<[room_id |-> roomId, id |-> id, message |-> message],
              [room_id |-> roomId, id |-> id, message |-> message]>>

\* req.io.to(`room_${roomId}`).emit('new_message', { room_id, message })
Emit(events, roomId, id, message) ==
  Append(events, [room_id |-> roomId, id |-> id, message |-> message])

SendMessage(u, roomId, text, hasIo) ==
  /\ UNCHANGED <<db, inflight, product_seq>>
  /\ UNCHANGED <<product_images, categories, reports, users, sends>>
  /\ IF text = "" \/ Len(Trim(text)) = 0 THEN
       /\ Respond("send", 400, "Message cannot be empty")
       /\ UNCHANGED <<chat_rooms, messages, message_seq, emitted>>
     ELSE IF ~HasAccess(chat_rooms, roomId, u) THEN
       /\ Respond("send", 403, "Access denied to this chat room")
       /\ UNCHANGED <<chat_rooms, messages, message_seq, emitted>>
     ELSE
       /\ message_seq' = message_seq + 1
       /\ messages' = InsertMessage(messages, message_seq', roomId, u, text)
       /\ chat_rooms' = TouchRoom(chat_rooms, roomId, message_seq')
       /\ emitted' = IF hasIo
                        THEN Emit(emitted, roomId, message_seq', messages'[message_seq'])
                        ELSE emitted
       /\ RespondId("send", 201, "Message sent successfully", message_seq')

\* the statements of the send route, one await at a time
\* messageRows of SELECT m.* ... WHERE m.id = ?
SelectMessage(rows, id) == IF id \in DOMAIN rows THEN <<rows[id]>> ELSE << >>

\* messageRows[0]; undefined when the SELECT found no row
Undefined == [room_id |-> 0, sender_id |-> 0, message |-> "", is_read |-> FALSE]
FirstRow(rows) == IF rows = << >> THEN Undefined ELSE rows[1]

SendCheck(s, u, roomId, text, hasIo) ==
  /\ sends[s].pc = "idle"
  /\ UNCHANGED <<db, inflight, product_seq>>
  /\ UNCHANGED <<product_images, categories, chat_rooms, messages, message_seq, emitted,
                 reports, users>>
  /\ IF text = "" \/ Len(Trim(text)) = 0 THEN
       /\ Respond("send", 400, "Message cannot be empty")
       /\ UNCHANGED sends
     ELSE IF ~HasAccess(chat_rooms, roomId, u) THEN
       /\ Respond("send", 403, "Access denied to this chat room")
       /\ UNCHANGED sends
     ELSE
       /\ sends' = [sends EXCEPT ![s] = [pc |-> "insert", user |-> u, room_id |-> roomId,
                                         text |-> text, hasIo |-> hasIo, id |-> 0,
                                         rows |-> << >>]]
       /\ UNCHANGED resp

SendInsert(s) ==
  /\ sends[s].pc = "insert"
  /\ UNCHANGED <<db, inflight, product_seq, resp>>
  /\ UNCHANGED <<product_images, categories, chat_rooms, emitted, reports, users>>
  /\ message_seq' = message_seq + 1
  /\ messages' = InsertMessage(messages, message_seq', sends[s].room_id, sends[s].user,
                               sends[s].text)
  /\ sends' = [sends EXCEPT ![s].pc = "touch", ![s].id = message_seq']

SendTouch(s) ==
  /\ sends[s].pc = "touch"
  /\ UNCHANGED <<db, inflight, product_seq, resp>>
  /\ UNCHANGED <<product_images, categories, messages, message_seq, emitted, reports, users>>
  /\ chat_rooms' = TouchRoom(chat_rooms, sends[s].room_id, message_seq)
  /\ sends' = [sends EXCEPT ![s].pc = "select"]

SendSelect(s) ==
  /\ sends[s].pc = "select"
  /\ UNCHANGED <<db, inflight, product_seq, resp>>
  /\ UNCHANGED <<product_images, categories, chat_rooms, messages, message_seq, emitted,
                 reports, users>>
  /\ sends' = [sends EXCEPT ![s].pc = "emit", ![s].rows = SelectMessage(messages, sends[s].id)]

SendEmit(s) ==
  /\ sends[s].pc = "emit"
  /\ UNCHANGED <<db, inflight, product_seq>>
  /\ UNCHANGED <<product_images, categories, chat_rooms, messages, message_seq, reports,
                 users>>
  /\ emitted' = IF sends[s].hasIo
                  THEN Emit(emitted, sends[s].room_id, sends[s].id, FirstRow(sends[s].rows))
                  ELSE emitted
  /\ RespondId("send", 201, "Message sent successfully", sends[s].id)
  /\ sends' = [sends EXCEPT ![s] = IdleSend]

(* ---------------------------------------- GET /chat/room/:roomId/messages *)
\* UPDATE messages SET is_read = TRUE WHERE room_id = ? AND sender_id != ? [AND is_read = FALSE]
\* an UPDATE without the sender_id != ? condition
MarkMessagesReadOfAll(rows, roomId, u) ==
  [k \in DOMAIN rows |->
     IF rows[k].room_id = roomId THEN [rows[k] EXCEPT !.is_read = TRUE] ELSE rows[k]]

\* UPDATE messages SET is_read = TRUE WHERE room_id = ? AND sender_id != ? ...
MarkMessagesRead(rows, roomId, u) ==
  [k \in DOMAIN rows |->
     IF rows[k].room_id = roomId /\ rows[k].sender_id # u
       THEN [rows[k] EXCEPT !.is_read = TRUE]
       ELSE rows[k]]

\* const { page = 1, limit = 50 } = req.query
DefaultPage == 1
DefaultLimit == 50

\* messages.length of SELECT ... WHERE m.room_id = ? ... LIMIT ? OFFSET ?
PageTotal(rows, roomId, page, limit) ==
  LET n == Cardinality({k \in DOMAIN rows : rows[k].room_id = roomId})
      offset == (page - 1) * limit
  IN IF n <= offset THEN 0 ELSE IF n - offset < limit THEN n - offset ELSE limit

GetMessagesPage(u, roomId, page, limit) ==
  /\ UNCHANGED <<db, inflight, product_seq>>
  /\ UNCHANGED <<product_images, categories, chat_rooms, message_seq, emitted, reports, users, sends>>
  /\ IF ~HasAccess(chat_rooms, roomId, u) THEN
       /\ Respond("messages", 403, "Access denied to this chat room")
       /\ UNCHANGED messages
     ELSE
       /\ messages' = MarkMessagesRead(messages, roomId, u)
       /\ RespondPage("messages", 200, roomId, PageTotal(messages, roomId, page, limit))

\* the request without page and limit
GetMessages(u, roomId) == GetMessagesPage(u, roomId, DefaultPage, DefaultLimit)

(* -------------------------------------------- PUT /chat/room/:roomId/read *)
MarkRead(u, roomId) ==
  /\ UNCHANGED <<db, inflight, product_seq>>
  /\ UNCHANGED <<product_images, categories, chat_rooms, message_seq, emitted, reports, users, sends>>
  /\ IF ~HasAccess(chat_rooms, roomId, u) THEN
       /\ Respond("read", 403, "Access denied to this chat room")
       /\ UNCHANGED messages
     ELSE
       /\ messages' = MarkMessagesRead(messages, roomId, u)
       /\ Respond("read", 200, "Messages marked as read")

(* ---------------------------------------- DELETE /chat/message/:messageId *)
MessageIdInputs == 1..(MaxMessages + 1)

\* SELECT * FROM messages WHERE id = ? AND sender_id = ?
OwnMessage(rows, id, u) == id \in DOMAIN rows /\ rows[id].sender_id = u

\* DELETE FROM messages WHERE id = ?
DeleteMessageRow(rows, id) == [k \in (DOMAIN rows) \ {id} |-> rows[k]]

DeleteMessage(u, id) ==
  /\ UNCHANGED <<db, inflight, product_seq>>
  /\ UNCHANGED <<product_images, categories, chat_rooms, message_seq, emitted, reports, users, sends>>
  /\ IF ~OwnMessage(messages, id, u) THEN
       /\ Respond("delete_message", 404,
                  "Message not found or you cannot delete this message")
       /\ UNCHANGED messages
     ELSE
       /\ messages' = DeleteMessageRow(messages, id)
       /\ Respond("delete_message", 200, "Message deleted successfully")

(* --------------------------------- POST /chat/message/:messageId/report *)
\* message.sender_id === req.user.id ? (buyer === req.user.id ? seller : buyer) : sender
ReportedUser(message, room, u) ==
  IF message.sender_id = u
    THEN (IF room.buyer_id = u THEN room.seller_id ELSE room.buyer_id)
    ELSE message.sender_id

\* INSERT INTO reports (reporter_id, reported_user_id, report_type, ...), status 'pending'
InsertReport(rows, u, reported) ==
  Append(rows, [reporter_id |-> u, reported_user_id |-> reported, status |-> "pending"])

ReportMessage(u, id, hasReason) ==
  /\ UNCHANGED <<db, inflight, product_seq>>
  /\ UNCHANGED <<product_images, categories, chat_rooms, messages, message_seq, emitted,
                 users, sends>>
  /\ IF ~hasReason THEN
       /\ Respond("report_message", 400, "Report reason is required")
       /\ UNCHANGED reports
     ELSE IF ~(id \in DOMAIN messages /\ HasAccess(chat_rooms, messages[id].room_id, u)) THEN
       /\ Respond("report_message", 404, "Message not found or access denied")
       /\ UNCHANGED reports
     ELSE
       /\ Len(reports) < MaxReports
       /\ reports' = InsertReport(reports, u,
                                  ReportedUser(messages[id], chat_rooms[messages[id].room_id], u))
       /\ Respond("report_message", 200, "Message reported successfully")

(* -------------------------------------------- PUT /admin/reports/:id/status *)
ReportStatuses == {"pending", "reviewed", "resolved", "dismissed"}
ReportIdInputs == 1..(MaxReports + 1)

\* if (!['reviewed', 'resolved', 'dismissed'].includes(status))
ValidReportStatus(status) == status \in {"reviewed", "resolved", "dismissed"}

\* const updateData = [status, reportId]; splice(1, 0, admin_notes); push(reportId)
ReportUpdateData(status, hasNotes, id) ==
  LET initial == <<status, id>>
      spliced == IF hasNotes THEN <<initial[1], "admin_notes", initial[2]>> ELSE initial
  IN Append(spliced, id)

\* 'UPDATE reports SET status = ?' [', admin_notes = ?']
\* [', resolved_at = CURRENT_TIMESTAMP'] ' WHERE id = ?'
ReportUpdatePlaceholders(status, hasNotes) == 1 + (IF hasNotes THEN 1 ELSE 0) + 1

\* UPDATE reports SET status = ? WHERE id = ?
SetReportStatus(rows, id, status) ==
  IF id \in DOMAIN rows THEN [rows EXCEPT ![id].status = status] ELSE rows

UpdateReportStatus(u, id, status, hasNotes) ==
  /\ UNCHANGED <<products, purchases, cart, favorites, sales_count, inflight, product_seq>>
  /\ UNCHANGED <<product_images, categories, chat_rooms, messages, message_seq, emitted,
                 users, sends>>
  /\ IF ~IsAdmin(u) THEN
       /\ Respond("report_status", 403, "Admin access required")
       /\ UNCHANGED <<reports, notifications>>
     ELSE IF ~ValidReportStatus(status) THEN
       /\ Respond("report_status", 400,
                  "Invalid status. Must be reviewed, resolved, or dismissed")
       /\ UNCHANGED <<reports, notifications>>
     ELSE IF id \notin DOMAIN reports THEN
       /\ Respond("report_status", 404, "Report not found")
       /\ UNCHANGED <<reports, notifications>>
     ELSE
       LET updateData == ReportUpdateData(status, hasNotes, id)
           n == ReportUpdatePlaceholders(status, hasNotes)
       IN \E outcome \in ExecuteOutcomes(n, Len(updateData)) :
            IF outcome = "error" THEN
              /\ Respond("report_status", 500, "Internal Server Error")
              /\ UNCHANGED <<reports, notifications>>
            ELSE
              /\ reports' = SetReportStatus(reports, updateData[n], updateData[1])
              /\ notifications' = InsertNotification(notifications, reports[id].reporter_id,
                                                     "admin", "Report Update", id)
              /\ RespondWith("report_status", 200, "Report " \o status \o " successfully",
                             0, status)

(* ------------------------- the same two handlers, one awaited statement a step *)
\* a request is taken up in the first free slot
FreeSlot(s) ==
  /\ inflight[s].pc = "idle"
  /\ \A t \in Slots : inflight[t].pc = "idle" => s <= t

Await(s, pc, op, u, id, status, hasTxn, purchase) ==
  inflight' = [inflight EXCEPT ![s] = [pc |-> pc, op |-> op, user |-> u, id |-> id,
                                       status |-> status, hasTxn |-> hasTxn,
                                       file |-> 0, files |-> 0,
                                       purchase |-> purchase]]

Resume(s, pc) == inflight' = [inflight EXCEPT ![s].pc = pc]

Finish(s) == inflight' = [inflight EXCEPT ![s] = IdleSlot]

\* SELECT * FROM purchases WHERE id = ?, and the checks on the row it returned
StatusUpdateSelect(s, u, id, status, hasTxn) ==
  /\ UNCHANGED catalog
  /\ FreeSlot(s)
  /\ UNCHANGED db
  /\ IF ~ValidStatusRequest(status) THEN
       Respond("status", 400, "Invalid status") /\ UNCHANGED inflight
     ELSE IF id \notin DOMAIN purchases THEN
       Respond("status", 404, "Purchase not found") /\ UNCHANGED inflight
     ELSE IF NotSeller(purchases[id], u) THEN
       Respond("status", 403, "You can only update your own sales") /\ UNCHANGED inflight
     ELSE IF CannotBeUpdated(purchases[id].status) THEN
       Respond("status", 400, "Purchase status cannot be changed") /\ UNCHANGED inflight
     ELSE
       Await(s, "update", "status", u, id, status, hasTxn, purchases[id]) /\ UNCHANGED resp

\* await db.execute(updateQuery, updateData)
StatusUpdateWrite(s) ==
  /\ UNCHANGED catalog
  /\ inflight[s].pc = "update" /\ inflight[s].op = "status"
  /\ UNCHANGED <<products, cart, favorites, notifications, sales_count>>
  /\ LET r == inflight[s]
         updateData == UpdateData(r.status, r.hasTxn, r.id)
         n == UpdateQueryPlaceholders(r.status, r.hasTxn)
     IN \E outcome \in ExecuteOutcomes(n, Len(updateData)) :
          IF outcome = "error" THEN
            /\ Respond("status", 500, "Internal Server Error")
            /\ Finish(s)
            /\ UNCHANGED purchases
          ELSE
            /\ purchases' = SetPurchaseStatus(purchases, updateData[n], updateData[1])
            /\ Resume(s, "notify")
            /\ UNCHANGED resp

\* INSERT INTO notifications ... [purchase.buyer_id, statusMessages[status], ...]
StatusUpdateNotify(s) ==
  /\ UNCHANGED catalog
  /\ inflight[s].pc = "notify" /\ inflight[s].op = "status"
  /\ UNCHANGED <<products, purchases, cart, favorites, sales_count>>
  /\ notifications' = InsertNotification(notifications, inflight[s].purchase.buyer_id,
                                         "purchase", "Purchase Update", inflight[s].id)
  /\ IF inflight[s].status = "completed"
       THEN Resume(s, "sold") /\ UNCHANGED resp
       ELSE /\ Finish(s)
            /\ RespondWith("status", 200, "Purchase " \o inflight[s].status \o " successfully",
                           0, inflight[s].status)

\* UPDATE products SET status = 'sold' WHERE id = purchase.product_id
StatusUpdateSold(s) ==
  /\ UNCHANGED catalog
  /\ inflight[s].pc = "sold" /\ inflight[s].op = "status"
  /\ UNCHANGED <<purchases, cart, favorites, notifications, sales_count, resp>>
  /\ products' = SetProductStatus(products, inflight[s].purchase.product_id, "sold")
  /\ Resume(s, "sales")

\* UPDATE users SET sales_count = sales_count + 1 WHERE id = purchase.seller_id
StatusUpdateSales(s) ==
  /\ UNCHANGED catalog
  /\ inflight[s].pc = "sales" /\ inflight[s].op = "status"
  /\ UNCHANGED <<products, purchases, cart, favorites, notifications>>
  /\ sales_count' = IncrementSales(sales_count, inflight[s].purchase.seller_id)
  /\ Finish(s)
  /\ RespondWith("status", 200, "Purchase " \o inflight[s].status \o " successfully",
                 0, inflight[s].status)

CancelSelect(s, u, id) ==
  /\ UNCHANGED catalog
  /\ FreeSlot(s)
  /\ UNCHANGED db
  /\ IF id \notin DOMAIN purchases THEN
       Respond("cancel", 404, "Purchase not found") /\ UNCHANGED inflight
     ELSE IF NotBuyer(purchases[id], u) THEN
       Respond("cancel", 403, "You can only cancel your own purchases") /\ UNCHANGED inflight
     ELSE IF CannotBeCancelled(purchases[id].status) THEN
       Respond("cancel", 400, "Purchase cannot be cancelled") /\ UNCHANGED inflight
     ELSE
       Await(s, "update", "cancel", u, id, "cancelled", FALSE, purchases[id])
         /\ UNCHANGED resp

\* UPDATE purchases SET status = 'cancelled' WHERE id = ?
CancelWrite(s) ==
  /\ UNCHANGED catalog
  /\ inflight[s].pc = "update" /\ inflight[s].op = "cancel"
  /\ UNCHANGED <<products, cart, favorites, notifications, sales_count, resp>>
  /\ purchases' = SetPurchaseStatus(purchases, inflight[s].id, "cancelled")
  /\ Resume(s, "notify")

CancelNotify(s) ==
  /\ UNCHANGED catalog
  /\ inflight[s].pc = "notify" /\ inflight[s].op = "cancel"
  /\ UNCHANGED <<products, purchases, cart, favorites, sales_count>>
  /\ notifications' = InsertNotification(notifications, inflight[s].purchase.seller_id,
                                         "purchase", "Purchase Cancelled", inflight[s].id)
  /\ Finish(s)
  /\ RespondWith("cancel", 200, "Purchase cancelled successfully", 0, "cancelled")

(* ------------------------------- PUT /products/:id, one await at a time *)
\* the request is at an await of addImage for req.files[file]
AwaitImage(s, pc, u, pid, file, files) ==
  inflight' = [inflight EXCEPT ![s] = [IdleSlot EXCEPT !.pc = pc, !.op = "update_product",
                                                         !.user = u, !.id = pid,
                                                         !.file = file, !.files = files]]

\* const images = await updatedProduct.getImages(); ...updatedProduct.toJSON()
RespondUpdated(pid) ==
  IF "toJSON" \in ProductMethods
    THEN RespondWith("update_product", 200, "Product updated successfully",
                     products'[pid].price, "none")
    ELSE Respond("update_product", 500, "updatedProduct.toJSON is not a function")

\* validate, Product.findById, the owner check and product.update(updateData)
UploadUpdate(s, u, pid, body, nFiles) ==
  /\ UNCHANGED <<purchases, cart, favorites, notifications, sales_count>>
  /\ UNCHANGED catalog
  /\ FreeSlot(s)
  /\ IF ~ValidUpdateBody(body) THEN
       Respond("update_product", 400, "Validation error") /\ UNCHANGED <<products, inflight>>
     ELSE IF pid \notin DOMAIN products THEN
       Respond("update_product", 404, "Product not found") /\ UNCHANGED <<products, inflight>>
     ELSE IF NotOwnerNorAdmin(products[pid], u) THEN
       /\ Respond("update_product", 403, "You can only update your own products")
       /\ UNCHANGED <<products, inflight>>
     ELSE IF DOMAIN body = {} THEN
       /\ Respond("update_product", 500, "Error updating product: No fields to update")
       /\ UNCHANGED <<products, inflight>>
     ELSE
       /\ products' = SetProductFields(products, pid, body)
       /\ IF nFiles > 0
            THEN AwaitImage(s, "unset", u, pid, 0, nFiles) /\ UNCHANGED resp
            ELSE RespondUpdated(pid) /\ UNCHANGED inflight

\* addImage(imageUrl, true): await db.run('UPDATE product_images SET is_primary = FALSE ...')
UploadUnset(s) ==
  /\ UNCHANGED <<db, resp, product_seq>>
  /\ UNCHANGED <<categories, chat_rooms, messages, message_seq, emitted, reports, users, sends>>
  /\ inflight[s].pc = "unset" /\ inflight[s].op = "update_product"
  /\ product_images' = UnsetPrimary(product_images, inflight[s].id, inflight[s].file = 0)
  /\ Resume(s, "insert")

\* addImage: await db.run('INSERT INTO product_images ...'), then the next file,
\* which is not primary and goes to its INSERT at once, or the response
UploadInsert(s) ==
  /\ UNCHANGED <<db, product_seq>>
  /\ UNCHANGED <<categories, chat_rooms, messages, message_seq, emitted, reports, users, sends>>
  /\ inflight[s].pc = "insert" /\ inflight[s].op = "update_product"
  /\ product_images' = Append(product_images, [product_id |-> inflight[s].id,
                                                is_primary |-> inflight[s].file = 0])
  /\ IF inflight[s].file + 1 < inflight[s].files
       THEN /\ inflight' = [inflight EXCEPT ![s].file = @ + 1]
            /\ UNCHANGED resp
       ELSE Finish(s) /\ RespondUpdated(inflight[s].id)

(* ----------------------------------------------------------------- Spec *)
\* the purchase workflow and the routes that name a product's status
Next ==
  \/ \E u \in UserIds, pid \in ProductIdInputs, qty \in {<< >>, <<0>>} :
       CreatePurchase(u, pid, qty) /\ Bounded
  \/ \E u \in UserIds, id \in PurchaseIdInputs, status \in StatusInputs, hasTxn \in BOOLEAN :
       UpdatePurchaseStatus(u, id, status, hasTxn) /\ Bounded
  \/ \E u \in UserIds, id \in PurchaseIdInputs : CancelPurchase(u, id) /\ Bounded
  \/ \E u \in UserIds, pid \in ProductIdInputs : ToggleFavorite(u, pid)
  \/ \E u \in UserIds, pid \in ProductIdInputs, status \in {"approved", "sold", "deleted"} :
       AdminUpdateProductStatus(u, pid, status)

Spec == Init /\ [][Next]_vars

\* the carts and the first purchase made from them, which empties its cart row
NextCart ==
  \/ \E u \in UserIds, pid \in ProductIdInputs, qty \in {<< >>, <<MaxQuantity>>} :
       AddToCart(u, pid, qty) /\ CartTotal(cart') <= MaxCartTotal
  \/ \E u \in UserIds, pid \in ProductIdInputs, qty \in {<< >>, <<0>>} :
       CreatePurchase(u, pid, qty) /\ Bounded /\ (purchases' # purchases => purchases = << >>)

\* the first listing is on sale or still waiting for approval
InitCart ==
  /\ Init
  /\ products[1].status \in {"approved", "pending"}

\* one listing is on sale
InitConc ==
  /\ Init
  /\ products[1].status = "approved"

SpecCart == InitCart /\ [][NextCart]_vars

\* the four routes that write the cart
NextCartOps ==
  \/ \E u \in UserIds, pid \in ProductIdInputs, qty \in {<< >>, <<MaxQuantity>>} :
       AddToCart(u, pid, qty) /\ CartTotal(cart') <= MaxCartTotal + MaxQuantity
  \/ \E u \in UserIds, pid \in ProductIdInputs, qty \in QuantityInputs :
       UpdateCartItem(u, pid, qty)
  \/ \E u \in UserIds, pid \in ProductIdInputs : RemoveFromCart(u, pid)
  \/ \E u \in UserIds : ClearCart(u)

SpecCartOps == InitCart /\ [][NextCartOps]_vars

\* adds of the largest quantity a request may name, and quantity updates
LargeQuantityInputs == {<< >>, <<MaxAllowedQuantity>>, <<MaxAllowedQuantity + 1>>}

NextCartMerge ==
  \/ \E u \in UserIds, pid \in ProductIdInputs, qty \in LargeQuantityInputs :
       /\ AddToCart(u, pid, qty)
       /\ \A k \in DOMAIN cart' : cart'[k] <= MaxAllowedQuantity + MaxQuantity
  \/ \E u \in UserIds, pid \in ProductIdInputs, qty \in LargeQuantityInputs :
       UpdateCartItem(u, pid, qty)

SpecCartMerge == InitConc /\ [][NextCartMerge]_vars

\* listings created and edited, with the files uploaded for them
FileCounts == 0..2

NextImages ==
  \/ \E u \in UserIds, price \in {0, 100}, nFiles \in FileCounts :
       CreateProduct(u, price, 1, nFiles)
  \/ \E u \in UserIds, pid \in ProductIdInputs, hasPrice \in BOOLEAN, nFiles \in FileCounts :
       UpdateProduct(u, pid, hasPrice, 150, nFiles)

SpecImages == Init /\ [][NextImages]_vars

\* categories deleted while listings come and go
CategoryIdInputs == 1..(MaxCategories + 1)

NextCategory ==
  \/ \E u \in UserIds, cid \in CategoryIdInputs : DeleteCategory(u, cid)
  \/ \E u \in UserIds, cid \in CategoryIds : CreateProduct(u, 100, cid, 0)
  \/ \E u \in UserIds, pid \in ProductIdInputs : DeleteProduct(u, pid)

\* the listings are in any of the seeded categories
SpecCategory == InitTables /\ [][NextCategory]_vars

\* rooms requested while the listing is bought
NextRoom ==
  \/ \E u \in UserIds, pid \in ProductIdInputs \cup {0}, seller \in UserIds :
       GetOrCreateRoom(u, pid, seller) /\ Len(chat_rooms') <= MaxRooms
  \/ \E u \in UserIds, pid \in ProductIdInputs : CreatePurchase(u, pid, << >>) /\ Bounded
  \/ \E u \in UserIds, id \in PurchaseIdInputs :
       UpdatePurchaseStatus(u, id, "completed", FALSE) /\ Bounded

SpecRoom == InitConc /\ [][NextRoom]_vars

\* rooms opened, messages sent and messages read
NextChat ==
  \/ \E u \in UserIds, pid \in ProductIdInputs, seller \in UserIds :
       GetOrCreateRoom(u, pid, seller) /\ Len(chat_rooms') <= MaxRooms
  \/ \E u \in UserIds, roomId \in RoomIdInputs, text \in {" ", "hello"}, hasIo \in BOOLEAN :
       SendMessage(u, roomId, text, hasIo) /\ message_seq' <= MaxMessages
  \/ \E u \in UserIds, roomId \in RoomIdInputs : GetMessages(u, roomId)
  \/ \E u \in UserIds, roomId \in RoomIdInputs : MarkRead(u, roomId)

SpecChat == InitConc /\ [][NextChat]_vars

\* messages sent, with or without a socket server, read and deleted
NextMessages ==
  \/ \E u \in UserIds, pid \in ProductIdInputs, seller \in UserIds :
       GetOrCreateRoom(u, pid, seller) /\ Len(chat_rooms') <= MaxRooms
  \/ \E u \in UserIds, roomId \in RoomIdInputs, text \in MessageInputs, hasIo \in BOOLEAN :
       SendMessage(u, roomId, text, hasIo) /\ message_seq' <= MaxMessages
  \/ \E u \in UserIds, roomId \in RoomIdInputs : GetMessages(u, roomId)
  \/ \E u \in UserIds, id \in MessageIdInputs : DeleteMessage(u, id)

SpecMessages == InitConc /\ [][NextMessages]_vars

\* messages reported and the reports handled by the admin
NextReports ==
  \/ \E u \in UserIds, pid \in ProductIdInputs, seller \in UserIds :
       GetOrCreateRoom(u, pid, seller) /\ Len(chat_rooms') <= MaxRooms
  \/ \E u \in UserIds, roomId \in RoomIdInputs :
       SendMessage(u, roomId, "hello", FALSE) /\ message_seq' <= MaxMessages
  \/ \E u \in UserIds, id \in MessageIdInputs, hasReason \in BOOLEAN :
       ReportMessage(u, id, hasReason)
  \/ \E u \in UserIds, id \in ReportIdInputs, status \in ReportStatuses,
        hasNotes \in BOOLEAN : UpdateReportStatus(u, id, status, hasNotes) /\ Bounded

SpecReports == InitConc /\ [][NextReports]_vars

\* listings put into carts, marked as favorites and deleted
NextDelete ==
  \/ \E u \in UserIds, pid \in ProductIdInputs, qty \in {<< >>, <<MaxQuantity>>} :
       AddToCart(u, pid, qty) /\ CartTotal(cart') <= MaxCartTotal + MaxQuantity
  \/ \E u \in UserIds, pid \in ProductIdInputs : ToggleFavorite(u, pid)
  \/ \E u \in UserIds, pid \in ProductIdInputs : DeleteProduct(u, pid)

SpecDelete == Init /\ [][NextDelete]_vars

\* the bodies of an update: no field, a price, and keys outside the schema
UpdateBodies == {EmptyBody, [price |-> 150], [price |-> 0], [status |-> "approved"],
                 [seller_id |-> AdminId], [price |-> 150, status |-> "sold"]}

\* listings edited and deleted by their seller, the admin and other users
NextOwner ==
  \/ \E u \in UserIds, pid \in ProductIdInputs, body \in UpdateBodies, nFiles \in {0, 1} :
       UpdateProductWith(u, pid, body, nFiles)
  \/ \E u \in UserIds, pid \in ProductIdInputs : DeleteProduct(u, pid)

SpecOwner == Init /\ [][NextOwner]_vars

\* listings created, edited and moderated
NextModerate ==
  \/ \E u \in UserIds, pid \in ProductIdInputs, status \in ProductStatuses \cup {"deleted"},
        reason \in ReasonInputs :
       AdminUpdateProductStatusWith(u, pid, status, reason)
  \/ \E u \in UserIds, nFiles \in {0, 1} : CreateProduct(u, 100, 1, nFiles)
  \/ \E u \in UserIds, pid \in ProductIdInputs, price \in Prices :
       UpdateProductWith(u, pid, [price |-> price], 0)

SpecModerate == Init /\ [][NextModerate]_vars

\* listings created in categories that exist or not, categories and listings deleted
NextErrors ==
  \/ \E u \in UserIds, cid \in CategoryIdInputs, nFiles \in {0, 1} :
       CreateProduct(u, 100, cid, nFiles)
  \/ \E u \in UserIds, cid \in CategoryIdInputs : DeleteCategory(u, cid)
  \/ \E u \in UserIds, pid \in ProductIdInputs : DeleteProduct(u, pid)

SpecErrors == InitTables /\ [][NextErrors]_vars

\* pages of messages read in the rooms of two buyers
PageInputs == 1..2
LimitInputs == 1..2

\* the first listing is on sale and two users have opened a room with its seller
InitRead ==
  /\ InitRows
  /\ \A p \in ProductIds : products[p].category_id = 1
  /\ products[1].status = "approved"
  /\ chat_rooms = InsertRoom(InsertRoom(<< >>, 1, products[1].seller_id, 1),
                             3, products[1].seller_id, 1)

NextRead ==
  \/ \E u \in UserIds, roomId \in 1..(MaxRooms + 2) :
       SendMessage(u, roomId, "hello", FALSE) /\ message_seq' <= MaxMessages + 1
  \/ \E u \in UserIds, roomId \in 1..(MaxRooms + 2), page \in PageInputs, limit \in LimitInputs :
       GetMessagesPage(u, roomId, page, limit)
  \/ \E u \in UserIds, roomId \in 1..(MaxRooms + 2) : MarkRead(u, roomId)

SpecRead == InitRead /\ [][NextRead]_vars

\* two sends at a time, statement by statement, one message for each slot
NextSend ==
  \/ \E s \in SendSlots, u \in UserIds, roomId \in 1..(Len(chat_rooms) + 1),
        hasIo \in BOOLEAN : SendCheck(s, u, roomId, "hello", hasIo)
  \/ \E s \in SendSlots : SendInsert(s) /\ message_seq' <= Cardinality(SendSlots)
  \/ \E s \in SendSlots : SendTouch(s)
  \/ \E s \in SendSlots : SendSelect(s)
  \/ \E s \in SendSlots : SendEmit(s)

SpecSend == InitRead /\ [][NextSend]_vars

\* several buyers order the listing on sale and its seller completes the orders
NextSold ==
  \/ \E u \in UserIds, pid \in ProductIdInputs :
       CreatePurchase(u, pid, << >>) /\ WithinBounds(MaxPurchases + 1, MaxNotifications + 1)
  \/ \E u \in UserIds, id \in 1..(MaxPurchases + 2), status \in {"confirmed", "completed"} :
       UpdatePurchaseStatus(u, id, status, FALSE)
         /\ WithinBounds(MaxPurchases + 1, MaxNotifications + 1)
  \/ \E u \in UserIds, id \in 1..(MaxPurchases + 2) :
       CancelPurchase(u, id) /\ WithinBounds(MaxPurchases + 1, MaxNotifications + 1)

SpecSold == InitConc /\ [][NextSold]_vars

\* updates of one listing with files, overlapping between the awaits of addImage
NextUpload ==
  \/ \E s \in Slots, u \in UserIds, pid \in ProductIdInputs,
        body \in {EmptyBody, [price |-> 150]}, nFiles \in FileCounts :
       UploadUpdate(s, u, pid, body, nFiles)
  \/ \E s \in Slots : UploadUnset(s)
  \/ \E s \in Slots : UploadInsert(s) /\ Len(product_images') <= MaxImages

SpecUpload == Init /\ [][NextUpload]_vars

\* rooms opened on listings that are then edited, deleted and followed by new ones
NextLinks ==
  \/ \E u \in UserIds, pid \in ProductIdInputs \cup {0}, seller \in UserIds :
       GetOrCreateRoom(u, pid, seller) /\ Len(chat_rooms') <= MaxRooms
  \/ \E u \in UserIds, pid \in ProductIdInputs,
        body \in {[price |-> 150], [seller_id |-> AdminId]} :
       UpdateProductWith(u, pid, body, 0)
  \/ \E u \in UserIds, pid \in ProductIdInputs : DeleteProduct(u, pid)
  \/ \E u \in UserIds : CreateProduct(u, 100, 1, 0)

SpecLinks == Init /\ [][NextLinks]_vars

\* accounts activated, deactivated and verified by the admin
NextUsers ==
  \E u \in UserIds, id \in UserIdInputs, isActive \in FlagInputs, isVerified \in FlagInputs :
    AdminUpdateUserStatus(u, id, isActive, isVerified) /\ Bounded

SpecUsers == Init /\ [][NextUsers]_vars

\* a purchase, later edits of the listing's price, and the purchase read back
NextPrice ==
  \/ \E u \in UserIds, pid \in ProductIdInputs, qty \in {<< >>, <<0>>} :
       CreatePurchase(u, pid, qty) /\ Bounded
  \/ \E u \in UserIds, pid \in ProductIdInputs, hasPrice \in BOOLEAN, price \in PriceInputs :
       UpdateProduct(u, pid, hasPrice, price, 0)
  \/ \E u \in UserIds, id \in PurchaseIdInputs : GetPurchase(u, id)

SpecPrice == Init /\ [][NextPrice]_vars

\* requests of the purchase router overlapping between their awaits
NextConc ==
  \/ \E u \in UserIds, pid \in ProductIdInputs, qty \in {<< >>, <<0>>} :
       CreatePurchase(u, pid, qty) /\ Bounded
  \/ \E s \in Slots, u \in UserIds, id \in PurchaseIdInputs, status \in StatusInputs,
        hasTxn \in {FALSE} : StatusUpdateSelect(s, u, id, status, hasTxn)
  \/ \E s \in Slots : StatusUpdateWrite(s)
  \/ \E s \in Slots : StatusUpdateNotify(s) /\ Bounded
  \/ \E s \in Slots : StatusUpdateSold(s)
  \/ \E s \in Slots : StatusUpdateSales(s)
  \/ \E s \in Slots, u \in UserIds, id \in PurchaseIdInputs : CancelSelect(s, u, id)
  \/ \E s \in Slots : CancelWrite(s)
  \/ \E s \in Slots : CancelNotify(s) /\ Bounded

SpecConc == InitConc /\ [][NextConc]_vars

(* ----------------------------------------------------------- properties *)
SpecEdges == {<<"pending", "confirmed">>, <<"pending", "cancelled">>,
              <<"confirmed", "completed">>}

TerminalStatuses == {"completed", "cancelled"}

PurchaseUpdateNotice(id) ==
  [user_id |-> purchases[id].buyer_id, type |-> "purchase", title |-> "Purchase Update",
   purchase_id |-> id]

C2_TerminalIsFinal ==
  [][\A id \in DOMAIN purchases :
       purchases[id].status \in TerminalStatuses =>
         purchases'[id].status = purchases[id].status]_vars

\* C3: the seller's completion of a confirmed purchase leaves the purchase
\* completed, its product sold and the seller's sales count one higher; a
\* completion of a purchase that is already completed is answered 400 and
\* changes none of the three.
C3_Completion ==
  [][resp'.op = "status" =>
       \A id \in DOMAIN purchases : \A u \in {purchases[id].seller_id}, h \in BOOLEAN :
       UpdatePurchaseStatus(u, id, "completed", h) =>
         /\ purchases[id].status = "confirmed" =>
              /\ purchases' = [purchases EXCEPT ![id].status = "completed"]
              /\ products' = [products EXCEPT ![purchases[id].product_id].status = "sold"]
              /\ sales_count' = [sales_count EXCEPT ![u] = sales_count[u] + 1]
         /\ purchases[id].status = "completed" =>
              resp'.code = 400 /\ UNCHANGED db]_vars

\* C4: in every state, a status update of a purchase by anyone but its seller
\* is answered 403 (400 when the body names no valid status), a cancel by
\* anyone but its buyer 403, and the buyer's cancel of a purchase that is not
\* pending 400; each of them leaves purchases, products, sales counts and
\* notifications unchanged.
C4_OnlySellerOnlyBuyer ==
  \A id \in DOMAIN purchases :
    /\ \A u \in UserIds \ {purchases[id].seller_id}, st \in StatusInputs, h \in BOOLEAN :
         ~ENABLED (/\ UpdatePurchaseStatus(u, id, st, h)
                   /\ ~(/\ resp'.code = (IF st \in {"confirmed", "cancelled", "completed"}
                                            THEN 403 ELSE 400)
                         /\ UNCHANGED <<purchases, products, sales_count, notifications>>))
    /\ \A u \in UserIds \ {purchases[id].buyer_id} :
         ~ENABLED (/\ CancelPurchase(u, id)
                   /\ ~(/\ resp'.code = 403
                         /\ UNCHANGED <<purchases, products, sales_count, notifications>>))
    /\ purchases[id].status # "pending" =>
         ~ENABLED (/\ CancelPurchase(purchases[id].buyer_id, id)
                   /\ ~(/\ resp'.code = 400
                         /\ UNCHANGED <<purchases, products, sales_count, notifications>>))

\* someone other than the seller asked for a status update of a purchase
C4_Witness ==
  /\ resp.op = "status" /\ resp.code = 403
  /\ resp.message = "You can only update your own sales"
  /\ purchases # << >>

\* C5: a product is sold only if some purchase of it is completed.
C5_SoldHasCompletedPurchase ==
  \A p \in DOMAIN products :
    products[p].status = "sold" =>
      \E id \in DOMAIN purchases :
        purchases[id].product_id = p /\ purchases[id].status = "completed"

\* C6: no cart row and no purchase row joins a user to a product of their own,
\* and in every state the request that would make one is answered 400 and
\* inserts nothing.
C6_NoSelfDealing ==
  /\ \A k \in DOMAIN cart : products[k[2]].seller_id # k[1]
  /\ \A id \in DOMAIN purchases : purchases[id].buyer_id # purchases[id].seller_id
  /\ \A pid \in DOMAIN products, qty \in QuantityInputs :
       /\ ~ENABLED (/\ AddToCart(products[pid].seller_id, pid, qty)
                    /\ ~(resp'.code = 400 /\ UNCHANGED db))
       /\ ~ENABLED (/\ CreatePurchase(products[pid].seller_id, pid, qty)
                    /\ ~(resp'.code = 400 /\ UNCHANGED db))

\* a seller's request to put their own product in the cart, refused, while
\* someone else's row for that product is in the cart
C6_Witness ==
  /\ resp.op = "cart_add" /\ resp.code = 400
  /\ resp.message = "You cannot add your own product to cart"
  /\ cart # EmptyCart

\* C7: a favorite toggle by the seller of the product is answered with a
\* domain error (400) and leaves the favorites alone.
C7_OwnFavoriteRejected ==
  [][resp'.op = "favorite" =>
       \A pid \in DOMAIN products :
         ToggleFavorite(products[pid].seller_id, pid) =>
           resp'.code = 400 /\ UNCHANGED favorites]_vars

\* C8: in every state, a purchase request for a product whose status is not
\* approved is answered 400 and one for a product that does not exist 404
\* (400 when the body is invalid), and neither inserts a purchase, removes a
\* cart row or sends a notification.
C8_ApprovedOnly ==
  \A u \in UserIds, pid \in ProductIdInputs, qty \in QuantityInputs :
    /\ (pid \in DOMAIN products /\ products[pid].status # "approved") =>
         ~ENABLED (/\ CreatePurchase(u, pid, qty)
                   /\ ~(resp'.code = 400 /\ UNCHANGED <<purchases, cart, notifications>>))
    /\ pid \notin DOMAIN products =>
         ~ENABLED (/\ CreatePurchase(u, pid, qty)
                   /\ ~(/\ resp'.code = (IF ValidPurchaseBody(pid, qty) THEN 404 ELSE 400)
                         /\ UNCHANGED <<purchases, cart, notifications>>))

\* a purchase of a product that has been sold, refused
C8_Witness ==
  /\ resp.op = "create" /\ resp.code = 400
  /\ resp.message = "Product is not available for purchase"
  /\ \E p \in DOMAIN products : products[p].status = "sold"

\* C9: in every state, a valid purchase request by a user for an approved
\* product of someone else is answered 201 and appends one purchase row (the
\* buyer, the product's seller, the product's price, the quantity asked for
\* or 1, pending), removes the buyer's cart row of that product and no other,
\* and adds one notification, addressed to the seller.
C9_CreateEffects ==
  \A pid \in DOMAIN products :
  \A u \in UserIds \ {products[pid].seller_id}, qty \in QuantityInputs :
    (ValidPurchaseBody(pid, qty) /\ products[pid].status = "approved") =>
      ~ENABLED
        (/\ CreatePurchase(u, pid, qty)
         /\ ~(/\ resp'.code = 201
               /\ purchases' = Append(purchases,
                                      [buyer_id |-> u,
                                       seller_id |-> products[pid].seller_id,
                                       product_id |-> pid, price |-> products[pid].price,
                                       quantity |-> IF qty = << >> THEN 1 ELSE qty[1],
                                       status |-> "pending"])
               /\ DOMAIN cart' = (DOMAIN cart) \ {<<u, pid>>}
               /\ \A k \in DOMAIN cart' : cart'[k] = cart[k]
               /\ \E n \in BagToSet(notifications') :
                    /\ n.user_id = products[pid].seller_id
                    /\ notifications' = notifications (+) SetToBag({n})
               /\ UNCHANGED <<products, favorites, sales_count>>))

\* a purchase made while another user's cart holds the same product
C9_Witness ==
  /\ resp.op = "create" /\ resp.code = 201
  /\ \E id \in DOMAIN purchases :
       /\ <<purchases[id].buyer_id, purchases[id].product_id>> \notin DOMAIN cart
       /\ \E k \in DOMAIN cart : k[2] = purchases[id].product_id

\* C10: the price a purchase is reported with, by the create response and by
\* the purchase details, is the price stored on the purchase row.
C10_ReportedPriceIsSnapshot ==
  [][/\ (resp'.op = "details" /\ resp'.code = 200) =>
          \A u \in UserIds, id \in DOMAIN purchases :
            GetPurchase(u, id) => resp'.price = purchases[id].price
     /\ (resp'.op = "create" /\ resp'.code = 201) =>
          \A u \in UserIds, pid \in DOMAIN products, qty \in QuantityInputs :
            CreatePurchase(u, pid, qty) =>
              resp'.price = purchases'[Len(purchases')].price]_vars

\* C11: the cart has one row per (user, product) -- it is keyed by the pair --,
\* an add of a pair that has a row adds its quantity to that row and inserts
\* nothing, and every stored quantity q satisfies 1 <= q <= 10
C11_OneRowMergedWithinRange ==
  [][/\ \A k \in DOMAIN cart' : cart'[k] >= MinQuantity /\ cart'[k] <= MaxAllowedQuantity
     /\ \A u \in UserIds, pid \in ProductIdInputs, qty \in LargeQuantityInputs :
          (AddToCart(u, pid, qty) /\ resp'.code = 200 /\ <<u, pid>> \in DOMAIN cart)
            => /\ DOMAIN cart' = DOMAIN cart
               /\ cart'[<<u, pid>>] = cart[<<u, pid>>] + QuantityOf(qty)]_vars

\* C12: an add to the cart that names a product without a row, or one whose
\* status is not approved, fails and leaves the cart as it was
C12_RejectsUnapproved ==
  [][\A u \in UserIds, pid \in ProductIdInputs, qty \in QuantityInputs :
       (/\ AddToCart(u, pid, qty)
        /\ pid \in DOMAIN products => products[pid].status # "approved")
         => resp'.code >= 400 /\ cart' = cart]_vars

\* the cart rows of the users other than u
CartOfOthers(rows, u) == [k \in {x \in DOMAIN rows : x[1] # u} |-> rows[k]]

\* C13: add, update-quantity, remove and clear-all by user u leave the cart
\* rows of every other user, and their quantities, as they were, whatever
\* product id u names
C13_CartIsolation ==
  \A u \in UserIds :
    /\ \A pid \in ProductIdInputs, qty \in QuantityInputs :
         /\ ~ENABLED (AddToCart(u, pid, qty) /\ CartOfOthers(cart', u) # CartOfOthers(cart, u))
         /\ ~ENABLED (/\ UpdateCartItem(u, pid, qty)
                      /\ CartOfOthers(cart', u) # CartOfOthers(cart, u))
    /\ \A pid \in ProductIdInputs :
         ~ENABLED (RemoveFromCart(u, pid) /\ CartOfOthers(cart', u) # CartOfOthers(cart, u))
    /\ ~ENABLED (ClearCart(u) /\ CartOfOthers(cart', u) # CartOfOthers(cart, u))

\* a user has cleared a cart that held a product another user still holds
C13_Witness ==
  /\ resp.op = "cart_clear" /\ resp.code = 200
  /\ \E k \in DOMAIN cart : \E u \in UserIds : u # k[1] /\ <<u, k[2]>> \notin DOMAIN cart
  /\ DOMAIN cart # {}

\* the ids of the primary images of a product
PrimaryImages(rows, pid) ==
  {i \in DOMAIN rows : rows[i].product_id = pid /\ rows[i].is_primary}

\* the rows of the products other than pid are what they were
OtherImagesKept(before, after, pid) ==
  \A i \in DOMAIN before : before[i].product_id # pid => after[i] = before[i]

\* the product has one primary image, the first of the n rows added last, and
\* the images of the other products are as before
FirstNewIsPrimary(before, after, pid, n) ==
  /\ Len(after) = Len(before) + n
  /\ PrimaryImages(after, pid) = {Len(before) + 1}
  /\ OtherImagesKept(before, after, pid)

\* C14: after addImage(url, true) on a product exactly one image of the product
\* is primary, the one just added; so after a create with n >= 0 files and
\* after an update with new files the product has exactly one primary image;
\* every listing has exactly one primary image, and the images of the other
\* products are unchanged
C14_OnePrimaryImage ==
  /\ \A pid \in DOMAIN products : Cardinality(PrimaryImages(product_images, pid)) = 1
  /\ \A pid \in ProductIdInputs :
       FirstNewIsPrimary(product_images, AddImage(product_images, pid, TRUE), pid, 1)
  /\ \A u \in UserIds, nFiles \in FileCounts :
       ~ENABLED (/\ CreateProduct(u, 100, 1, nFiles)
                 /\ ~FirstNewIsPrimary(product_images, product_images', product_seq',
                                        IF nFiles > 0 THEN nFiles ELSE 1))
  /\ \A u \in UserIds, pid \in ProductIdInputs, hasPrice \in BOOLEAN, nFiles \in FileCounts \ {0} :
       ~ENABLED (/\ UpdateProduct(u, pid, hasPrice, 150, nFiles)
                 /\ product_images' # product_images
                 /\ ~FirstNewIsPrimary(product_images, product_images', pid, nFiles))

\* a listing whose first image gave way to an uploaded one, next to a second
\* listing with its own image
C14_Witness ==
  /\ resp.op = "update_product"
  /\ \E pid \in DOMAIN products :
       /\ \E i \in DOMAIN product_images :
            product_images[i].product_id = pid /\ ~product_images[i].is_primary
       /\ Cardinality(PrimaryImages(product_images, pid)) = 1
       /\ \E other \in DOMAIN products :
            other # pid /\ Cardinality(PrimaryImages(product_images, other)) = 1

\* C15: a category delete by the admin fails and leaves the category in place
\* when a product of any status references the category, and removes the
\* category when none does
C15_CategoryDelete ==
  \A cid \in categories :
    ~ENABLED (/\ DeleteCategory(AdminId, cid)
              /\ ~(IF \E p \in DOMAIN products : products[p].category_id = cid
                     THEN resp'.code >= 400 /\ categories' = categories
                     ELSE resp'.code = 200 /\ categories' = categories \ {cid}))

\* one category is gone and the delete of one that holds a listing that is not
\* on sale has just failed
C15_Witness ==
  /\ resp.op = "delete_category" /\ resp.code = 500
  /\ categories # SeededCategories
  /\ \E p \in DOMAIN products :
       products[p].category_id \in categories /\ products[p].status # "approved"

\* C16: a request for a (buyer, seller, product) that has a room returns the id
\* of that room and inserts nothing, a request for one that has none inserts
\* one room, and no triple ever has two rooms
C16_GetOrCreateIdempotent ==
  [][/\ \A u \in UserIds, pid \in ProductIdInputs, seller \in UserIds :
          GetOrCreateRoom(u, pid, seller) /\ Len(chat_rooms') <= MaxRooms
            => IF ExistingRoom(chat_rooms, u, seller, pid) # {}
                 THEN /\ resp'.code = 200
                      /\ resp'.id \in ExistingRoom(chat_rooms, u, seller, pid)
                      /\ chat_rooms' = chat_rooms
                 ELSE Len(chat_rooms') <= Len(chat_rooms) + 1
     /\ \A u \in UserIds, pid \in ProductIdInputs, seller \in UserIds :
          Cardinality(ExistingRoom(chat_rooms', u, seller, pid)) <= 1]_vars

\* the users that are neither the buyer nor the seller of the room
Outsiders(roomId) ==
  {u \in UserIds : chat_rooms[roomId].buyer_id # u /\ chat_rooms[roomId].seller_id # u}

\* C17: for a user who is neither the buyer nor the seller of a room, a send
\* is refused (403, or 400 for an empty message) and inserts no message,
\* leaves last_message_at and emits nothing, and get-messages and mark-read
\* return 403 and change no is_read flag
C17_OutsiderRefused ==
  \A roomId \in DOMAIN chat_rooms : \A u \in Outsiders(roomId) :
    /\ \A text \in MessageInputs, hasIo \in BOOLEAN :
         ~ENABLED (/\ SendMessage(u, roomId, text, hasIo)
                   /\ ~(/\ resp'.code = (IF Trim(text) = "" THEN 400 ELSE 403)
                        /\ UNCHANGED <<messages, message_seq, chat_rooms, emitted>>))
    /\ ~ENABLED (GetMessages(u, roomId) /\ ~(resp'.code = 403 /\ UNCHANGED messages))
    /\ ~ENABLED (MarkRead(u, roomId) /\ ~(resp'.code = 403 /\ UNCHANGED messages))

\* a send has been refused with 403 while a room holds an unread message
C17_Witness ==
  /\ resp.op = "send" /\ resp.code = 403
  /\ \E id \in DOMAIN messages :
       /\ ~messages[id].is_read
       /\ Outsiders(messages[id].room_id) # {}

\* C18: a stored message is never removed and keeps its room, its sender and
\* its text; only its is_read changes
C18_AppendOnly ==
  [][\A id \in DOMAIN messages :
       /\ id \in DOMAIN messages'
       /\ messages'[id].room_id = messages[id].room_id
       /\ messages'[id].sender_id = messages[id].sender_id
       /\ messages'[id].message = messages[id].message]_vars

\* C19: no report returns to pending, a report that is resolved or dismissed
\* keeps its status, and a status request of the admin for such a report is
\* rejected and leaves the report and the notifications as they were
C19_ForwardOnly ==
  [][/\ \A id \in DOMAIN reports :
          /\ reports'[id].status = "pending" => reports[id].status = "pending"
          /\ reports[id].status \in {"resolved", "dismissed"} => reports'[id] = reports[id]
     /\ \A id \in DOMAIN reports, status \in ReportStatuses, hasNotes \in BOOLEAN :
          (/\ UpdateReportStatus(AdminId, id, status, hasNotes)
           /\ reports[id].status \in {"resolved", "dismissed"}
           /\ status # reports[id].status)
            => resp'.code >= 400 /\ UNCHANGED <<reports, notifications>>]_vars

\* C20: after a product delete that succeeds no product_images row, cart row
\* or favorites row names the deleted product
C20_DeleteCascades ==
  [][\A u \in UserIds, pid \in ProductIdInputs :
       (DeleteProduct(u, pid) /\ resp'.code = 200)
         => /\ \A i \in DOMAIN product_images' : product_images'[i].product_id # pid
            /\ \A k \in DOMAIN cart' : k[2] # pid
            /\ \A f \in favorites' : f[2] # pid]_vars

\* C21: a caller who is neither the seller of a product nor an admin gets 403
\* from update (400 when the body fails validation, which is checked first)
\* and from delete, and the product rows and the image rows stay as they
\* were; and no update or delete, by any caller with any body, changes the
\* seller_id or the status of a product
C21_OwnerOrAdminOnly ==
  \A pid \in DOMAIN products, u \in UserIds :
    /\ (products[pid].seller_id # u /\ ~IsAdmin(u)) =>
         /\ \A body \in UpdateBodies, nFiles \in {0, 1} :
              ~ENABLED (/\ UpdateProductWith(u, pid, body, nFiles)
                        /\ ~(/\ resp'.code = (IF ValidUpdateBody(body) THEN 403 ELSE 400)
                             /\ UNCHANGED <<products, product_images>>))
         /\ ~ENABLED (/\ DeleteProduct(u, pid)
                      /\ ~(resp'.code = 403 /\ UNCHANGED <<products, product_images>>))
    /\ \A body \in UpdateBodies, nFiles \in {0, 1} :
         ~ENABLED (/\ UpdateProductWith(u, pid, body, nFiles)
                   /\ ~(\A p \in DOMAIN products :
                          /\ p \in DOMAIN products'
                          /\ products'[p].seller_id = products[p].seller_id
                          /\ products'[p].status = products[p].status))
    /\ ~ENABLED (/\ DeleteProduct(u, pid)
                 /\ ~(\A p \in DOMAIN products' :
                        /\ products'[p].seller_id = products[p].seller_id
                        /\ products'[p].status = products[p].status))

\* a delete by another user has been refused for a listing its seller had edited
C21_Witness ==
  /\ resp.op = "delete_product" /\ resp.code = 403
  /\ \E p \in DOMAIN products : products[p].price = 150

C23_RejectionNeedsReason ==
  [][\A u \in UserIds, pid \in DOMAIN products, reason \in ReasonInputs :
       (IsAdmin(u) /\ AdminUpdateProductStatusWith(u, pid, "rejected", reason)) =>
         IF reason = << >>
           THEN resp'.code >= 400 /\ products'[pid].status = products[pid].status
           ELSE /\ products'[pid].status = "rejected"
                /\ products'[pid].rejection_reason = reason[1]
                /\ \E n \in BagToSet(notifications') :
                     /\ n.user_id = products[pid].seller_id
                     /\ notifications' = notifications (+) SetToBag({n})]_vars

\* C24: a request that the store refuses for a missing foreign key -- a
\* listing created in a category that does not exist -- is answered 400 with
\* a message that is not the storage engine's error text
C24_ConstraintsTranslated ==
  [][\A u \in UserIds, cid \in CategoryIdInputs, nFiles \in {0, 1} :
       (/\ cid \notin categories
        /\ CreateProduct(u, 100, cid, nFiles)
        /\ UNCHANGED products)
         => /\ resp'.code = 400
            /\ resp'.message # Rethrown("Error creating product: ", ForeignKeyFailed).message
            /\ resp'.message # ForeignKeyFailed.message]_vars

\* C25: in every state where no request of the purchase router is between two
\* of its statements, each user's sales_count is the number of completed
\* purchases that name the user as seller
C25_SalesCountConsistent ==
  (\A s \in Slots : inflight[s].pc = "idle") =>
    \A u \in UserIds :
      sales_count[u] = Cardinality({id \in DOMAIN purchases :
                                     /\ purchases[id].seller_id = u
                                     /\ purchases[id].status = "completed"})

\* the users of a room
Participants(roomId) == {chat_rooms[roomId].buyer_id, chat_rooms[roomId].seller_id}

\* the messages of a room that a user did not send and has not read
Unread(rows, roomId, u) ==
  {k \in DOMAIN rows : rows[k].room_id = roomId /\ rows[k].sender_id # u /\ ~rows[k].is_read}

\* C26: a participant's read of any page of a room, with any limit, marks
\* every message of the room that the participant did not send as read, so
\* none is unread afterwards, and leaves is_read of the participant's own
\* messages and of the messages of other rooms as it was; and no step sets
\* is_read of a message back to false
C26_ReadMarksRoom ==
  /\ \A roomId \in DOMAIN chat_rooms : \A u \in Participants(roomId) :
       \A page \in PageInputs, limit \in LimitInputs :
         ~ENABLED (/\ GetMessagesPage(u, roomId, page, limit)
                   /\ ~(/\ resp'.code = 200
                        /\ DOMAIN messages' = DOMAIN messages
                        /\ Unread(messages', roomId, u) = {}
                        /\ \A k \in DOMAIN messages :
                             (messages[k].room_id # roomId \/ messages[k].sender_id = u)
                               => messages'[k] = messages[k]))
  /\ ~ENABLED (/\ NextRead
               /\ \E k \in DOMAIN messages :
                    messages[k].is_read /\ (k \in DOMAIN messages' => ~messages'[k].is_read))

\* the second page of a room has been read while the room holds a message of
\* the reader and a message of the other participant, both now read or own
C26_Witness ==
  /\ resp.op = "messages" /\ resp.code = 200 /\ resp.total = 0
  /\ \E a \in DOMAIN messages, b \in DOMAIN messages :
       /\ messages[a].room_id = resp.id /\ messages[b].room_id = resp.id
       /\ messages[a].sender_id # messages[b].sender_id
       /\ messages[a].is_read /\ ~messages[b].is_read

\* the events that carry a message id
EventsOf(id) == {i \in DOMAIN emitted : emitted[i].id = id}

CompletedOf(pid) ==
  {i \in 1..Len(purchases) : purchases[i].product_id = pid /\ purchases[i].status = "completed"}

\* C28: a product is sold at most once: at most one purchase of a given product
\* has the status completed
C28_SoldAtMostOnce ==
  \A pid \in ProductIdInputs : Cardinality(CompletedOf(pid)) <= 1

\* C29: at most one image of a product is primary in every reachable state,
\* also when two updates with files of the same product interleave between
\* addImage's UPDATE and its INSERT
C29_OnePrimaryInterleaved ==
  \A pid \in ProductIdInputs : Cardinality(PrimaryImages(product_images, pid)) <= 1

\* C30: every chat room links two distinct users to the seller's own listing:
\* in every reachable state each room has buyer_id different from seller_id and
\* seller_id equal to the seller_id of the room's product
C30_RoomLinksSellerListing ==
  \A i \in DOMAIN chat_rooms :
    /\ chat_rooms[i].buyer_id # chat_rooms[i].seller_id
    /\ chat_rooms[i].product_id \in DOMAIN products
    /\ products[chat_rooms[i].product_id].seller_id = chat_rooms[i].seller_id

====
